---- MODULE Spec2Model ----
(***************************************************************************)
(* Model of the LED-wall I/O engine (LorinMuehlebach/led_wall).            *)
(*                                                                         *)
(*  Part 1  Transmitter: led_wall/MultiUniverseArtnet.py (StupidArtnet)    *)
(*  Part 2  Frame Scheduler threads: led_wall/io_manager.py (IO_Manager)   *)
(*          and led_wall/effects/video_play.py (VideoPlay)                 *)
(*  Part 3  Receiver and ChannelSet: led_wall/io_manager.py (IO_Manager)  *)
(*          and led_wall/ui/dmx_channels.py (DMX_channels_Input)           *)
(*  Part 4  Mapper: output_artnet_init and update_artnet_output of         *)
(*          led_wall/io_manager.py                                         *)
(*          with OutputCorrection, the global flips, the pacing of         *)
(*          run_loop and the teardown (stop_loop, __del__)                 *)
(*          and the changes of the settings and the restart of the loop    *)
(*          after a preset change (entry_points/main.py)                   *)
(***************************************************************************)
EXTENDS Integers, Sequences, FiniteSets, TLC

(***************************************************************************)
(* Program constants and model bounds                                      *)
(***************************************************************************)
\* keep-alive interval of show(), in seconds (one clock tick is one second)
KeepAlive == 1
\* the sequence counter is kept modulo this
SeqModulus == 256
\* value of time() when the Transmitter is constructed (any value > KeepAlive)
StartTime == 2
\* the clock is advanced up to here
MaxTime == 4
\* two-universe specification: show() is called while every counter is below
MaxSeq == 3
\* the universe argument left at its default (None)
NoUniverse == -1
\* packet size asked for by the two-universe specification
TxPacketSize == 2
\* the main (UI) thread
Main == 0
\* run_thread / loop_thread before any thread was created (None)
NoThread == -1
\* a Thread object whose target has returned: is_alive() is False
Gone == -2
\* worker threads (loop and drive threads) that can be alive at once
MaxThreads == 2
\* handlers the main thread runs plus changes of channel 5, in SpecLoop
MaxEvents == 5
\* the same, in SpecJoin
MaxJoinEvents == 3
\* SpecCfg: show() is called while every counter is below
MaxCfgSeq == 2
\* largest consecutive_universes that the settings are given
MaxConsecutive == 2
\* calls made on the Receiver and the ChannelSet, in SpecRx
MaxRxCalls == 4
\* largest DMX start address that is configured
MaxAddress == 2
\* packets delivered and get_channels calls made, in SpecRace
MaxRaceCalls == 4
\* settings changed, in SpecMap
MaxMapCalls == 3
MaxOutCalls == 3
FramePeriod == 3
\* calls made on the Transmitter of the buffer specification
MaxBufCalls == 4
\* settings changed in the setup specification
MaxSetupCalls == 2
MaxPaceTime == 13
\* self.pixel_channels: bytes per pixel
PixelChannels == 4
\* IO_Manager is built with this many channels (14 in the program)
NChannels == 2
\* OutputCorrection.apply: max_val = 0xFF
MaxVal == 255
\* the number of values of dtype uint8
U8 == 256
\* run_loop: the 0.001 s of line 393, the unit of ts_last_frame and wake
Millis == 1
\* self.artnet_server is None / self.receiver was never assigned
NoListener == 0
\* a sACN receiver is created without a port argument
NoPort == -1
\* no update_sliders / get_channels call is in progress
NoCall == <<>>
\* an argument left at its default (None)
NoArg == -1

VARIABLES
    \* ---- StupidArtnet (Transmitter) ----
    universes,          \* self.universes: list of universe ids
    packet_size,        \* self.packet_size
    universe_buffer,    \* self.universe_buffer: pending payload per universe
    last_sent_buffer,   \* self.last_sent_buffer: last transmitted payload
    last_send_time,     \* self.last_send_time
    sequences,          \* self.sequences
    if_sync,            \* self.if_sync
    now,                \* the wall clock read by time()
    sweep,              \* what the latest show() handed to the socket
    fresh,              \* universes whose pending payload no set()/clear()
                        \* changed since their last transmitted packet
    sent_at,            \* per universe: time of its last transmitted packet
    \* ---- IO_Manager (Frame Scheduler) ----
    run,                \* self.run: the run flag
    run_thread,         \* self.run_thread: the latest loop thread, or NoThread
    artnet_sender,      \* whether self.artnet_sender exists
    segment_to_universe,\* self.segment_to_universe; Part 2 only tells the
                        \* filled table "built" from the emptied one "empty"
    output_buffer,      \* self.output_buffer; Part 2 only tells the all-zero
                        \* frame "zeros" from a produced one "frame"
    \* ---- EffectManager / VideoPlay ----
    active_effect,      \* the effect kind selected in the EffectManager
    wanted,             \* the effect kind selected by DMX channel 5
    is_active,          \* VideoPlay.is_active
    loop_thread,        \* VideoPlay.loop_thread: latest drive thread
    \* ---- threads ----
    pc,                 \* per thread: the statement it is at
    target,             \* per worker thread: the function it runs
    idx,                \* per thread: argument index of change_active_effect
    \* ---- history ----
    halted,             \* loop threads alive at the latest stop, when no
                        \* start_loop call of the owner (the main thread)
                        \* was in progress then or began since
    events,             \* number of handlers the main thread has run and
                        \* of changes of channel 5
    \* ---- IO_Manager (wiring configuration) ----
    resolution,         \* self.resolution: <<width, height>>
    addressing_direction,   \* "vertical" or "horizontal"
    consecutive_universes,  \* self.consecutive_universes
    device_universes,   \* self.device_universes
    reverse_addressing, \* self.reverse_addressing
    device_order_reversed,  \* self.device_order_reversed
    \* ---- IO_Manager (Receiver) ----
    input_source,       \* self.input_source
    input_universe,     \* self.input_universe
    input_port,         \* self.input_port
    input_dmx_address,  \* self.input_dmx_address
    artnet_server,      \* self.artnet_server: a listener id, or NoListener
    receiver,           \* self.receiver: a listener id, or NoListener
    listening,          \* the listeners that were started and not closed
    opened,             \* number of listeners created so far
    \* ---- DMX_channels_Input (ChannelSet) ----
    channels,           \* self.channels: value per key
    ignore_external,    \* self.ignore_external
    upd,                \* the update_sliders call the receiver worker is in
    rd,                 \* the get_channels call the loop worker is in
    committed,          \* history: the values of self.channels after each
                        \* completed update_sliders call
    last,               \* history: the latest call made on the Receiver or
                        \* the ChannelSet
    calls,              \* history: number of calls made in Parts 3 and 4
    builds,             \* history: the wiring settings and the table of
                        \* every run of output_artnet_init after __init__
    \* ---- IO_Manager (output settings) ----
    flip_top_bottom,    \* self.flip_top_bottom
    flip_left_right,    \* self.flip_left_right
    gamma_correction,   \* self.gamma_correction: a method name
    black_on_close,     \* self.black_on_close
    corrected,          \* history: the latest call of OutputCorrection.apply
                        \* and its outcome, or NoResult
    \* ---- IO_Manager (pacing of run_loop) ----
    ts_last_frame,      \* self.ts_last_frame, in milliseconds
    wake,               \* the time at which the sleep() in progress is over
    pace                \* history: the times at which step() began, when
                        \* the latest step() returned and whether the loop
                        \* slept since
VARIABLES
    \* ---- IO_Manager (the frame producer of step) ----
    create_frame,       \* self.create_frame: NoProducer, or the resolution
                        \* the registered producer makes its frames with
    steplog             \* history: the calls that the latest step() made and
                        \* the exception that ended it, if one did

txvars == <<universes, packet_size, universe_buffer, last_sent_buffer,
            last_send_time, sequences, if_sync, now, sweep, fresh, sent_at>>

loopvars == <<run, run_thread, artnet_sender, segment_to_universe, output_buffer,
              active_effect, wanted, is_active, loop_thread, pc, target, idx,
              halted, events>>

cfgvars == <<resolution, addressing_direction, consecutive_universes,
             device_universes, reverse_addressing, device_order_reversed>>

rxvars == <<input_source, input_universe, input_port, input_dmx_address,
            artnet_server, receiver, listening, opened>>

chvars == <<channels, ignore_external, upd, rd, committed, last>>

outvars == <<flip_top_bottom, flip_left_right, gamma_correction, black_on_close,
             corrected>>

pacevars == <<ts_last_frame, wake, pace>>

stepvars == <<create_frame, steplog>>

latevars == <<outvars, pacevars, stepvars>>

iovars == <<cfgvars, rxvars, chvars, calls, builds, latevars>>

vars == <<txvars, loopvars, iovars>>

(***************************************************************************)
(* Part 1: Transmitter                                                     *)
(***************************************************************************)
Range(s) == {s[i] : i \in 1..Len(s)}

\* bytearray(n): n zero bytes
Zeros(n) == [i \in 1..n |-> 0]

\* no show() has run since the last other call
NoSweep == [done |-> FALSE, wire |-> <<>>, raised |-> FALSE, was_fresh |-> {}]

\* position in wire of the ArtDmx datagrams
DmxAt(w) == {j \in 1..Len(w) : w[j].op = "dmx"}
\* universes for which a datagram was handed to sendto()
Attempted(sw) == {sw.wire[j].universe : j \in DmxAt(sw.wire)}
\* universes whose datagram sendto() accepted
Transmitted(sw) == {sw.wire[j].universe : j \in {k \in DmxAt(sw.wire) : sw.wire[k].ok}}
\* universes whose sendto() raised socket.error
Failed(sw) == {sw.wire[j].universe : j \in {k \in DmxAt(sw.wire) : ~sw.wire[k].ok}}

\* bytearray('Art-Net', 'utf8')
ArtNetId == <<65, 114, 116, 45, 78, 101, 116>>
\* shift_this(number) as lines 127 and 144 unpack it: <<MSB, LSB>>
shift_this(number) == <<(number \div 256) % 256, number % 256>>

\* variant of make_artdmx_header: the universe goes out high byte first
make_artdmx_header_msb_first(universe, seq) ==
    ArtNetId \o <<0, 0, 80, 0, 14, seq, 0>>
       \o shift_this(universe) \o shift_this(packet_size)
\* variant of make_artdmx_header: the packet size goes out low byte first
make_artdmx_header_size_lsb_first(universe, seq) ==
    ArtNetId \o <<0, 0, 80, 0, 14, seq, 0>>
       \o <<shift_this(universe)[2], shift_this(universe)[1]>>
       \o <<shift_this(packet_size)[2], shift_this(packet_size)[1]>>
\* make_artdmx_header(universe), is_simplified being True (line 59); seq is
\* self.sequences[universe]
make_artdmx_header(universe, seq) ==
    ArtNetId \o <<0, 0, 80, 0, 14, seq, 0>>
       \o <<shift_this(universe)[2], shift_this(universe)[1]>>
       \o <<shift_this(packet_size)[1], shift_this(packet_size)[2]>>
\* make_artsync_header(): the bytes of self.artsync_header
make_artsync_header == ArtNetId \o <<0, 0, 82, 0, 14, 0, 0>>

\* an ArtDmx datagram given to sendto(): the packet of show() lines 183-186
\* in bytes, with the arguments it was built from; ok tells whether sendto
\* succeeded
DmxPacket(u, s, d, ok) ==
    [op |-> "dmx", universe |-> u, sequence |-> s, data |-> d, ok |-> ok,
     bytes |-> make_artdmx_header(u, s) \o d]

\* the ArtSync datagram of send_artsync()
SyncPacket(ok) ==
    [op |-> "sync", universe |-> -1, sequence |-> 0, data |-> <<>>, ok |-> ok,
     bytes |-> make_artsync_header]

\* stupidArtnet.ArtnetUtils.put_in_range: clamp, then round odd values up
PutInRange(number, lo, hi, make_even) ==
    LET clamped == IF number < lo THEN lo ELSE IF number > hi THEN hi ELSE number
    IN  IF make_even /\ clamped % 2 # 0 THEN clamped + 1 ELSE clamped

\* StupidArtnet.__init__
TxInit(us, size, sync) ==
    /\ universes = us
    /\ packet_size = PutInRange(size, 2, 512, TRUE)
    /\ universe_buffer = [u \in Range(us) |-> Zeros(PutInRange(size, 2, 512, TRUE))]
    /\ last_sent_buffer = [u \in Range(us) |-> Zeros(PutInRange(size, 2, 512, TRUE))]
    /\ last_send_time = [u \in Range(us) |-> 0]
    /\ sequences = [u \in Range(us) |-> 0]
    /\ if_sync = sync
    /\ sweep = NoSweep
    /\ fresh = {}
    /\ sent_at = [u \in Range(us) |-> 0]

\* variant of Due: the keep-alive fires at exactly one second
DueAtOneSecond(st, u, t) ==
    \/ universe_buffer[u] # st.sent[u]
    \/ t - st.time[u] >= KeepAlive
\* variant of Due: no keep-alive, only changes are sent
DueOnChangeOnly(st, u, t) ==
    universe_buffer[u] # st.sent[u]
\* the test of show(): data changed, or more than a second since the last send
Due(st, u, t) ==
    \/ universe_buffer[u] # st.sent[u]
    \/ t - st.time[u] > KeepAlive

\* variant of SendOne: the socket error is not caught
SendOneUncaught(st, u, t, ok) ==
    IF ok
    THEN [st EXCEPT !.sent[u] = universe_buffer[u],
                    !.time[u] = t,
                    !.seqs[u] = (st.seqs[u] + 1) % SeqModulus,
                    !.wire = Append(st.wire,
                               DmxPacket(u, st.seqs[u], universe_buffer[u], TRUE))]
    ELSE [st EXCEPT !.seqs[u] = (st.seqs[u] + 1) % SeqModulus,
                    !.raised = TRUE,
                    !.wire = Append(st.wire,
                               DmxPacket(u, st.seqs[u], universe_buffer[u], FALSE))]
\* variant of SendOne: the counter is not reduced modulo 256
SendOneNoWrap(st, u, t, ok) ==
    IF ok
    THEN [st EXCEPT !.sent[u] = universe_buffer[u],
                    !.time[u] = t,
                    !.seqs[u] = st.seqs[u] + 1,
                    !.wire = Append(st.wire,
                               DmxPacket(u, st.seqs[u], universe_buffer[u], TRUE))]
    ELSE [st EXCEPT !.seqs[u] = st.seqs[u] + 1,
                    !.wire = Append(st.wire,
                               DmxPacket(u, st.seqs[u], universe_buffer[u], FALSE))]
\* variant of SendOne: the snapshot and the send time are taken in the
\* finally clause, whether sendto() raised or not
SendOneRecordsFailure(st, u, t, ok) ==
    [st EXCEPT !.sent[u] = universe_buffer[u],
               !.time[u] = t,
               !.seqs[u] = (st.seqs[u] + 1) % SeqModulus,
               !.wire = Append(st.wire,
                          DmxPacket(u, st.seqs[u], universe_buffer[u], ok))]
\* the try/except/finally of show() for one due universe
SendOne(st, u, t, ok) ==
    IF ok
    THEN [st EXCEPT !.sent[u] = universe_buffer[u],
                    !.time[u] = t,
                    !.seqs[u] = (st.seqs[u] + 1) % SeqModulus,
                    !.wire = Append(st.wire,
                               DmxPacket(u, st.seqs[u], universe_buffer[u], TRUE))]
    ELSE [st EXCEPT !.seqs[u] = (st.seqs[u] + 1) % SeqModulus,
                    !.wire = Append(st.wire,
                               DmxPacket(u, st.seqs[u], universe_buffer[u], FALSE))]

\* the for-loop of show() over the universes us still to visit; sendto fails
\* for the universes in fails; an exception that escapes ends the loop
RECURSIVE Sweep(_, _, _, _)
Sweep(st, us, t, fails) ==
    IF us = <<>> \/ st.raised THEN st
    ELSE LET u == Head(us)
         IN  Sweep(IF Due(st, u, t) THEN SendOne(st, u, t, u \notin fails) ELSE st,
                   Tail(us), t, fails)

\* variant of SendSync: the sync packet goes out whatever if_sync says
SendSyncAlways(st, syncOk) ==
    [st EXCEPT !.wire = Append(st.wire, SyncPacket(syncOk))]
\* show() lines 196-197 and send_artsync(): the socket error is caught
SendSync(st, syncOk) ==
    IF if_sync /\ ~st.raised
    THEN [st EXCEPT !.wire = Append(st.wire, SyncPacket(syncOk))]
    ELSE st

\* show()
show(fails, syncOk) ==
    LET st0 == [sent |-> last_sent_buffer, time |-> last_send_time,
                seqs |-> sequences, wire |-> <<>>, raised |-> FALSE]
        st  == SendSync(Sweep(st0, universes, now, fails), syncOk)
    IN  /\ last_sent_buffer' = st.sent
        /\ last_send_time' = st.time
        /\ sequences' = st.seqs
        /\ sweep' = [done |-> TRUE, wire |-> st.wire, raised |-> st.raised,
                      was_fresh |-> fresh]
        /\ fresh' = fresh \cup Transmitted(sweep')
        /\ sent_at' = [u \in DOMAIN sent_at |->
                         IF u \in Transmitted(sweep') THEN now ELSE sent_at[u]]
        /\ UNCHANGED <<universes, packet_size, universe_buffer, if_sync, now>>

\* self.universe_buffer[u] = value: a dict assignment, which adds the key u
\* when the dict has none
Assign(ub, u, value) ==
    [v \in DOMAIN ub \cup {u} |-> IF v = u THEN value ELSE ub[v]]

\* set(value, universe): universe None means the first universe
set(value, universe) ==
    LET u == IF universe = NoUniverse THEN universes[1] ELSE universe
    IN  /\ IF Len(value) # packet_size
           THEN UNCHANGED <<universe_buffer, fresh>>
           ELSE /\ universe_buffer' = Assign(universe_buffer, u, value)
                /\ fresh' = IF u \in DOMAIN universe_buffer
                                /\ value = universe_buffer[u]
                             THEN fresh ELSE fresh \ {u}
        /\ sweep' = NoSweep
        /\ UNCHANGED <<universes, packet_size, last_sent_buffer, last_send_time,
                       sequences, if_sync, now, sent_at>>

\* clear(universe): universe None clears every universe
clear(universe) ==
    LET cleared == IF universe = NoUniverse THEN Range(universes) ELSE {universe}
    IN  /\ universe_buffer' = [u \in DOMAIN universe_buffer \cup cleared |->
                                 IF u \in cleared THEN Zeros(packet_size)
                                 ELSE universe_buffer[u]]
        /\ fresh' = {u \in fresh : universe_buffer'[u] = universe_buffer[u]}
        /\ sweep' = NoSweep
        /\ UNCHANGED <<universes, packet_size, last_sent_buffer, last_send_time,
                       sequences, if_sync, now, sent_at>>

\* variant of Resized: the resized buffer starts empty
ResizedToZeros(old, size) == Zeros(size)
\* lines 265-268 and 272-275 of set_packet_size: a buffer of the new size
\* that keeps the first min(len(old), size) bytes of the old one
Resized(old, size) ==
    [i \in 1..size |-> IF i <= Len(old) THEN old[i] ELSE 0]

\* set_packet_size(packet_size): the buffers of every universe are resized;
\* the sequence counters and the send times are not touched
set_packet_size(size) ==
    /\ packet_size' = PutInRange(size, 2, 512, TRUE)
    /\ universe_buffer' = [u \in DOMAIN universe_buffer |->
                             IF u \in Range(universes)
                             THEN Resized(universe_buffer[u], packet_size')
                             ELSE universe_buffer[u]]
    /\ last_sent_buffer' = [u \in DOMAIN last_sent_buffer |->
                              IF u \in Range(universes)
                              THEN Resized(last_sent_buffer[u], packet_size')
                              ELSE last_sent_buffer[u]]
    /\ sweep' = NoSweep
    /\ UNCHANGED <<universes, last_send_time, sequences, if_sync, now, fresh,
                   sent_at>>

\* set_universe(universe): the universe list becomes the single universe,
\* with new buffers, send time and counter
set_universe(universe) ==
    LET u == PutInRange(universe, 0, 255, FALSE)
    IN  /\ universes' = <<u>>
        /\ universe_buffer' = [v \in {u} |-> Zeros(packet_size)]
        /\ last_sent_buffer' = [v \in {u} |-> Zeros(packet_size)]
        /\ last_send_time' = [v \in {u} |-> 0]
        /\ sequences' = [v \in {u} |-> 0]
        /\ sweep' = NoSweep
        /\ fresh' = {}
        /\ sent_at' = [v \in {u} |-> 0]
        /\ UNCHANGED <<packet_size, if_sync, now>>

\* StupidArtnet(universes=us, packet_size=size): the constructor's
\* assignments, for a sender that replaces the current one
NewSender(us, size) ==
    /\ universes' = us
    /\ packet_size' = PutInRange(size, 2, 512, TRUE)
    /\ universe_buffer' = [u \in Range(us) |-> Zeros(packet_size')]
    /\ last_sent_buffer' = [u \in Range(us) |-> Zeros(packet_size')]
    /\ last_send_time' = [u \in Range(us) |-> 0]
    /\ sequences' = [u \in Range(us) |-> 0]
    /\ if_sync' = FALSE
    /\ sweep' = NoSweep
    /\ fresh' = {}
    /\ sent_at' = [u \in Range(us) |-> 0]
    /\ UNCHANGED now

\* time passes between two calls
Tick ==
    /\ now < MaxTime
    /\ now' = now + 1
    /\ sweep' = NoSweep
    /\ UNCHANGED <<universes, packet_size, universe_buffer, last_sent_buffer,
                   last_send_time, sequences, if_sync, fresh, sent_at>>


(***************************************************************************)
(* Part 2: Frame Scheduler threads                                         *)
(*                                                                         *)
(* Every thread is at a statement pc[t].  Statements that touch no shared  *)
(* field are folded into the statement before them.  join(timeout=...) can *)
(* return at any moment: the joined thread ended or the timeout elapsed.   *)
(***************************************************************************)
Workers == 1..MaxThreads
Threads == {Main} \cup Workers
\* threads created with target=self.run_loop / target=self._drive_loop
LoopWorkers == {w \in Workers : target[w] = "run_loop"}
DriveWorkers == {w \in Workers : target[w] = "_drive_loop"}

Effects == {"plain", "video"}

\* Thread.is_alive(): pc[t] = "none" when no thread with identity t is running
\* (not created yet, returned from its target, or ended by an exception);
\* a reference to a thread that ended becomes Gone
Alive(t) == t \in Threads /\ pc[t] # "none"

\* statements of step() and of everything called from it
StepLabels == {"cb", "cb_raw", "write", "cae", "cae_switch", "v_spawn",
               "sl_begin", "sl_join", "sl_spawn", "st_begin", "st_join"}
InStep(t) == t \in Workers /\ pc[t] \in StepLabels

\* statements of start_loop(), and the join statements of start_loop(),
\* stop_thread() and stop_loop()
StartLabels == {"sl_begin", "sl_join", "sl_spawn"}
JoinLabels == {"sl_join", "st_join", "sp_join"}

\* IO_Manager.__init__ followed by EffectManager.setup with the default effect
LoopInit ==
    /\ run = FALSE
    /\ run_thread = NoThread
    /\ artnet_sender = TRUE
    /\ segment_to_universe = "built"
    /\ output_buffer = "zeros"
    /\ active_effect = "plain"
    /\ wanted = "plain"
    /\ is_active = FALSE
    /\ loop_thread = NoThread
    /\ pc = [t \in Threads |-> IF t = Main THEN "idle" ELSE "none"]
    /\ target = [t \in Workers |-> "none"]
    /\ idx = [t \in Threads |-> "plain"]
    /\ halted = {}
    /\ events = 0

Goto(t, l) == pc' = [pc EXCEPT ![t] = l]
\* the thread's target returns or an exception leaves it
ThreadEnds(t) ==
    /\ Goto(t, "none")
    /\ target' = [target EXCEPT ![t] = "none"]
    /\ run_thread' = IF run_thread = t THEN Gone ELSE run_thread
    /\ loop_thread' = IF loop_thread = t THEN Gone ELSE loop_thread
    /\ halted' = halted \ {t}
\* where step() returns to: run_loop line 390 or _drive_loop line 127
StepReturn(t) == IF t \in LoopWorkers THEN "loop_check" ELSE "drive_check"
\* where start_loop() returns to: the main thread's handler, or
\* change_active_effect line 167 (through VideoPlay.stop)
StartReturn(t) == IF t = Main THEN "idle" ELSE "cae_switch"

\* ---- IO_Manager.start_loop ----
\* lines 311-319: called from the loop thread itself only sets the flag;
\* otherwise clears the flag and joins a loop thread that is still alive
sl_begin(t) ==
    /\ pc[t] = "sl_begin"
    /\ halted' = IF t = Main THEN {} ELSE halted
    /\ IF run_thread # NoThread /\ run_thread = t
       THEN run' = TRUE /\ Goto(t, StartReturn(t))
       ELSE IF run_thread # NoThread /\ Alive(run_thread)
       THEN run' = FALSE /\ Goto(t, "sl_join")
       ELSE run' = TRUE /\ Goto(t, "sl_spawn")
    /\ UNCHANGED <<txvars, iovars, run_thread, artnet_sender, segment_to_universe,
                   output_buffer, active_effect, wanted, is_active, loop_thread, target, idx, events>>

\* variant of JoinDone: join() without a timeout
JoinNoTimeout(t) == ~Alive(run_thread)
\* join(timeout=...) returns when the thread ended or the timeout elapsed
JoinDone(t) == TRUE

\* line 321: self.run_thread.join(timeout=1.0)
sl_join(t) ==
    /\ pc[t] = "sl_join"
    /\ JoinDone(t)
    /\ Goto(t, "sl_spawn")
    /\ UNCHANGED <<txvars, iovars, run, run_thread, artnet_sender,
                   segment_to_universe, output_buffer, active_effect, wanted, is_active, loop_thread, target, idx, halted, events>>

\* a thread identity that is free for a new Thread object
FreeIds == {k \in Workers : ~Alive(k)}
NewId == CHOOSE k \in FreeIds : \A j \in FreeIds : k <= j

\* lines 327-329: set the flag, create and start the new loop thread
sl_spawn(t) ==
    /\ pc[t] = "sl_spawn"
    /\ FreeIds # {}
    /\ LET k == NewId
       IN  /\ run' = TRUE
           /\ run_thread' = k
           /\ pc' = [pc EXCEPT ![t] = StartReturn(t), ![k] = "loop_check"]
           /\ target' = [target EXCEPT ![k] = "run_loop"]
    /\ UNCHANGED <<txvars, iovars, artnet_sender, segment_to_universe, output_buffer,
                   active_effect, wanted, is_active, loop_thread, idx, halted, events>>

\* what a stop records: the loop threads it is meant to end, unless a
\* start_loop call of the owner is in progress
OwnerStartInProgress == pc[Main] \in StartLabels
AliveLoops == {w \in LoopWorkers : Alive(w)}

\* ---- IO_Manager.stop_thread ----
\* lines 357-360: clear the flag; join the loop thread unless it is the caller
st_begin(t) ==
    /\ pc[t] = "st_begin"
    /\ run' = FALSE
    /\ halted' = IF OwnerStartInProgress THEN {} ELSE AliveLoops
    /\ IF run_thread # NoThread /\ Alive(run_thread) /\ run_thread # t
       THEN Goto(t, "st_join")
       ELSE Goto(t, "v_spawn")
    /\ UNCHANGED <<txvars, iovars, run_thread, artnet_sender, segment_to_universe,
                   output_buffer, active_effect, wanted, is_active, loop_thread, target, idx, events>>

\* line 360: self.run_thread.join(timeout=2.0)
st_join(t) ==
    /\ pc[t] = "st_join"
    /\ JoinDone(t)
    /\ Goto(t, "v_spawn")
    /\ UNCHANGED <<txvars, iovars, run, run_thread, artnet_sender,
                   segment_to_universe, output_buffer, active_effect, wanted, is_active, loop_thread, target, idx, halted, events>>

\* ---- IO_Manager.stop_loop ----
\* lines 332-347: clear the flag, delete the sender, join the loop thread;
\* with run_thread None line 345 raises and the call ends
sp_begin(t) ==
    /\ pc[t] = "sp_begin"
    /\ run' = FALSE
    /\ artnet_sender' = FALSE
    /\ halted' = IF OwnerStartInProgress THEN {} ELSE AliveLoops
    /\ IF run_thread # NoThread /\ Alive(run_thread) /\ run_thread # t
       THEN Goto(t, "sp_join")
       ELSE Goto(t, "idle")
    /\ UNCHANGED <<txvars, iovars, run_thread, segment_to_universe, output_buffer,
                   active_effect, wanted, is_active, loop_thread, target, idx, events>>

\* line 347: self.run_thread.join(timeout=2.0)
sp_join(t) ==
    /\ pc[t] = "sp_join"
    /\ JoinDone(t)
    /\ Goto(t, "idle")
    /\ UNCHANGED <<txvars, iovars, run, run_thread, artnet_sender,
                   segment_to_universe, output_buffer, active_effect, wanted, is_active, loop_thread, target, idx, halted, events>>

\* ---- IO_Manager.run_loop ----
\* lines 390-395 and step() 376-378: leave when the flag is clear, else
\* wait for the frame time and enter step()
loop_check(t) ==
    /\ pc[t] = "loop_check"
    /\ IF run
       THEN Goto(t, "cb")
            /\ UNCHANGED <<target, run_thread, loop_thread, halted>>
       ELSE ThreadEnds(t)
    /\ UNCHANGED <<txvars, iovars, run, artnet_sender, segment_to_universe,
                   output_buffer, active_effect, wanted, is_active, idx, events>>

\* ---- EffectManager.run_loop (the frame producer) ----
\* lines 239-241: when channel 5 selects another effect, call
\* change_active_effect(index=...)
cb(t) ==
    /\ pc[t] = "cb"
    /\ IF wanted # active_effect
       THEN Goto(t, "cae") /\ idx' = [idx EXCEPT ![t] = wanted]
       ELSE Goto(t, "cb_raw") /\ UNCHANGED idx
    /\ UNCHANGED <<txvars, iovars, run, run_thread, artnet_sender,
                   segment_to_universe, output_buffer, active_effect, wanted, is_active, loop_thread, target, halted, events>>

\* an exception of the frame producer is caught nowhere in step() or
\* run_loop()/_drive_loop(): it ends the thread
FrameProducerRaised(t) ==
    /\ ThreadEnds(t)
    /\ idx' = [idx EXCEPT ![t] = "plain"]
    /\ UNCHANGED output_buffer

\* effect_manager.py 243-258 and io_manager.py 379-383, 517-518: run_raw
\* returns the frame, which becomes the output buffer, or raises;
\* update_artnet_output returns at once without a sender
cb_raw(t) ==
    /\ pc[t] = "cb_raw"
    /\ \/ /\ output_buffer' = "frame"
          /\ Goto(t, IF artnet_sender THEN "write" ELSE StepReturn(t))
          /\ UNCHANGED <<idx, target, run_thread, loop_thread, halted>>
       \/ FrameProducerRaised(t)
    /\ UNCHANGED <<txvars, iovars, run, artnet_sender, segment_to_universe,
                   active_effect, wanted, is_active, events>>

\* ---- IO_Manager.update_artnet_output ----
\* lines 520-589: set() for every segment, then show(); a sender deleted
\* meanwhile makes self.artnet_sender raise AttributeError
write(t) ==
    /\ pc[t] = "write"
    /\ IF artnet_sender
       THEN Goto(t, StepReturn(t))
            /\ UNCHANGED <<target, run_thread, loop_thread, halted>>
       ELSE ThreadEnds(t)
    /\ UNCHANGED <<txvars, iovars, run, artnet_sender, segment_to_universe,
                   output_buffer, active_effect, wanted, is_active, idx, events>>

\* ---- EffectManager.change_active_effect, VideoPlay.stop ----
\* effect_manager.py 166 and video_play.py 94-103: stop the active effect;
\* the video effect clears is_active, waits at most one second for its
\* drive thread (the caller then rests before start_loop for any time) and
\* hands control back with start_loop()
cae(t) ==
    /\ pc[t] = "cae"
    /\ IF active_effect = "video"
       THEN is_active' = FALSE /\ Goto(t, "sl_begin")
       ELSE UNCHANGED is_active /\ Goto(t, "cae_switch")
    /\ UNCHANGED <<txvars, iovars, run, run_thread, artnet_sender,
                   segment_to_universe, output_buffer, active_effect, wanted, loop_thread, target, idx, halted, events>>

\* effect_manager.py 167-174 and video_play.py 79-85: select the effect and
\* start it; the video effect sets is_active and calls stop_thread()
cae_switch(t) ==
    /\ pc[t] = "cae_switch"
    /\ active_effect' = idx[t]
    /\ idx' = [idx EXCEPT ![t] = "plain"]
    /\ IF idx[t] = "video"
       THEN is_active' = TRUE /\ Goto(t, "st_begin")
       ELSE UNCHANGED is_active /\ Goto(t, "cb_raw")
    /\ UNCHANGED <<txvars, iovars, run, run_thread, artnet_sender,
                   segment_to_universe, output_buffer, wanted, loop_thread, target, halted, events>>

\* video_play.py 87-88: create and start the drive thread
v_spawn(t) ==
    /\ pc[t] = "v_spawn"
    /\ FreeIds # {}
    /\ LET k == NewId
       IN  /\ loop_thread' = k
           /\ pc' = [pc EXCEPT ![t] = "cb_raw", ![k] = "drive_join"]
           /\ target' = [target EXCEPT ![k] = "_drive_loop"]
    /\ UNCHANGED <<txvars, iovars, run, run_thread, artnet_sender,
                   segment_to_universe, output_buffer, active_effect, wanted, is_active, idx, halted, events>>

\* ---- VideoPlay._drive_loop ----
\* lines 111-117: wait at most one second for a loop thread that is still
\* alive: run_thread.join(timeout=1.0) returns whether or not it ended
drive_join(t) ==
    /\ pc[t] = "drive_join"
    /\ Goto(t, "drive_check")
    /\ UNCHANGED <<txvars, iovars, run, run_thread, artnet_sender,
                   segment_to_universe, output_buffer, active_effect, wanted, is_active, loop_thread, target, idx, halted, events>>

\* lines 127-131 and 139-141: while self.is_active: self.io_manager.step()
drive_check(t) ==
    /\ pc[t] = "drive_check"
    /\ IF is_active
       THEN Goto(t, "cb")
            /\ UNCHANGED <<target, run_thread, loop_thread, halted>>
       ELSE ThreadEnds(t)
    /\ UNCHANGED <<txvars, iovars, run, artnet_sender, segment_to_universe,
                   output_buffer, active_effect, wanted, is_active, idx, events>>

\* ---- IO_Manager.output_artnet_init ----
\* lines 494-511: fill the table and create the new sender
oi_build(t) ==
    /\ pc[t] = "oi_build"
    /\ segment_to_universe' = "built"
    /\ artnet_sender' = TRUE
    /\ Goto(t, "idle")
    /\ UNCHANGED <<txvars, iovars, run, run_thread, output_buffer, active_effect,
                   wanted, is_active, loop_thread, target, idx, halted, events>>

\* ---- what the main thread is asked to do ----
\* main.py 113: start_loop()
UiStartLoop ==
    /\ pc[Main] = "idle"
    /\ Goto(Main, "sl_begin")
    /\ UNCHANGED <<txvars, iovars, run, run_thread, artnet_sender,
                   segment_to_universe, output_buffer, active_effect, wanted, is_active, loop_thread, target, idx, halted>>

\* effect_manager.py 311: stop_loop()
UiStopLoop ==
    /\ pc[Main] = "idle"
    /\ Goto(Main, "sp_begin")
    /\ UNCHANGED <<txvars, iovars, run, run_thread, artnet_sender,
                   segment_to_universe, output_buffer, active_effect, wanted, is_active, loop_thread, target, idx, halted>>

\* io_manager.py 79-93, 181-251: a setting's on_change calls
\* output_artnet_init, whose lines 480-492 delete the sender and empty the
\* table
UiOutputInit ==
    /\ pc[Main] = "idle"
    /\ artnet_sender' = FALSE
    /\ segment_to_universe' = "empty"
    /\ Goto(Main, "oi_build")
    /\ UNCHANGED <<txvars, iovars, run, run_thread, output_buffer, active_effect,
                   wanted, is_active, loop_thread, target, idx, halted>>

\* a receiver publishes another value of channel 5
SelectEffect ==
    /\ \E e \in Effects : e # wanted /\ wanted' = e
    /\ UNCHANGED <<txvars, iovars, run, run_thread, artnet_sender,
                   segment_to_universe, output_buffer, active_effect, is_active, loop_thread, pc, target, idx, halted>>

\* one more handler call or channel change, while fewer than max happened
Event(max) ==
    /\ events < max
    /\ events' = events + 1

\* the statements of the threads
ThreadNext ==
    \/ \E t \in Threads : sl_begin(t)
    \/ \E t \in Threads : sl_join(t)
    \/ \E t \in Threads : sl_spawn(t)
    \/ \E t \in Threads : st_begin(t)
    \/ \E t \in Threads : st_join(t)
    \/ \E t \in Threads : sp_begin(t)
    \/ \E t \in Threads : sp_join(t)
    \/ \E t \in Threads : loop_check(t)
    \/ \E t \in Threads : cb(t)
    \/ \E t \in Threads : cb_raw(t)
    \/ \E t \in Threads : write(t)
    \/ \E t \in Threads : cae(t)
    \/ \E t \in Threads : cae_switch(t)
    \/ \E t \in Threads : v_spawn(t)
    \/ \E t \in Threads : drive_join(t)
    \/ \E t \in Threads : drive_check(t)
    \/ \E t \in Threads : oi_build(t)

(***************************************************************************)
(* Part 3: Receiver and ChannelSet                                         *)
(***************************************************************************)
\* dmx_channels.py 71: max(0, min(255, value))
Clamp(value) == IF value < 0 THEN 0 ELSE IF value > 255 THEN 255 ELSE value

\* dmx_channels.py 70-72: self.channels[i] = value for every i, value of
\* enumerate(values); a key that is not yet in the dict is added
Written(ch, values) ==
    [k \in DOMAIN ch \cup 0..(Len(values) - 1) |->
        IF k < Len(values) THEN Clamp(values[k + 1]) ELSE ch[k]]

\* variant of Ignored: external values are never ignored
IgnoredNever(external) == FALSE
\* dmx_channels.py 66: external and self.ignore_external
Ignored(external) == external /\ ignore_external

\* DMX_channels_Input.update_sliders(values, external), run as a whole
update_sliders(values, external) ==
    IF Ignored(external)
    THEN UNCHANGED <<channels, committed>>
    ELSE /\ channels' = Written(channels, values)
         /\ committed' = committed \cup {channels'}

\* DMX_channels_Input.get_channels(): the values in key order
get_channels(ch) == [i \in 1..Cardinality(DOMAIN ch) |-> ch[i - 1]]

\* variant of Slice: the window starts at the first byte of the payload
SliceFromFirst(data, start, count) == [i \in 1..count |-> data[i]]
\* data[start : start + count], for len(data) >= start + count
Slice(data, start, count) == [i \in 1..count |-> data[start + i]]

\* IO_Manager.on_artnet_frame(data)
on_artnet_frame(data) ==
    LET start == input_dmx_address - 1
        count == NChannels
    IN  IF Len(data) >= start + count
        THEN update_sliders(Slice(data, start, count), TRUE)
        ELSE UNCHANGED <<channels, committed>>

\* the callback that input_sacn_init registers with the sACN receiver
callback(packet) ==
    IF packet.dmxStartCode = 0
    THEN LET start == input_dmx_address - 1
             count == NChannels
         IN  IF Len(packet.dmxData) >= start + count
             THEN update_sliders(Slice(packet.dmxData, start, count), TRUE)
             ELSE UNCHANGED <<channels, committed>>
    ELSE UNCHANGED <<channels, committed>>

\* IO_Manager.input_sacn_init(universum, port): a new receiver is started;
\* the receiver that self.receiver referred to is not stopped
input_sacn_init(universum, port) ==
    /\ input_universe' = IF universum # NoArg THEN universum ELSE input_universe
    /\ input_port' = IF port # NoArg THEN port ELSE input_port
    /\ opened' = opened + 1
    /\ receiver' = opened'
    /\ listening' = listening \cup
          {[id |-> opened', kind |-> "sacn", universe |-> input_universe',
            port |-> NoPort]}
    /\ UNCHANGED artnet_server

\* IO_Manager.input_artnet_init(universum, port): the server that
\* self.artnet_server refers to is closed and a new one is started
input_artnet_init(universum, port) ==
    /\ input_universe' = IF universum # NoArg THEN universum ELSE input_universe
    /\ input_port' = IF port # NoArg THEN port ELSE input_port
    /\ opened' = opened + 1
    /\ artnet_server' = opened'
    /\ listening' = {l \in listening : l.id # artnet_server} \cup
          {[id |-> opened', kind |-> "artnet", universe |-> input_universe',
            port |-> input_port']}
    /\ UNCHANGED receiver

\* IO_Manager.input_init(dmx_address), run after input_source was stored
input_init(dmx_address) ==
    /\ input_dmx_address' =
          IF dmx_address # NoArg THEN dmx_address ELSE input_dmx_address
    /\ IF input_source' = "artnet" THEN input_artnet_init(NoArg, NoArg)
       ELSE IF input_source' = "sacn" THEN input_sacn_init(NoArg, NoArg)
       ELSE UNCHANGED <<input_universe, input_port, artnet_server, receiver,
                        listening, opened>>

(***************************************************************************)
(* Part 4: Mapper (the segment-to-universe table)                          *)
(***************************************************************************)
\* io_manager.py 485: the number of segments (columns or rows)
NumSegments ==
    IF addressing_direction = "vertical" THEN resolution[1] ELSE resolution[2]
\* io_manager.py 486: the payload length of one segment
PacketsPerUniverse ==
    PixelChannels * (IF addressing_direction = "vertical"
                     THEN resolution[2] ELSE resolution[1])

\* variant of AllUniverses: the universes are numbered 0, 1, 2, ...
RECURSIVE AllUniversesNoGap(_, _, _, _, _, _)
AllUniversesNoGap(i, n, c, d, current_universe, consecutive_count) ==
    IF i >= n THEN <<>>
    ELSE <<current_universe>> \o
         AllUniversesNoGap(i + 1, n, c, d, current_universe + 1, 0)
\* io_manager.py 488-503: the loop over the segments from segment i on;
\* the result is all_universes
RECURSIVE AllUniverses(_, _, _, _, _, _)
AllUniverses(i, n, c, d, current_universe, consecutive_count) ==
    IF i >= n THEN <<>>
    ELSE <<current_universe>> \o
         (IF consecutive_count + 1 >= c
          THEN AllUniverses(i + 1, n, c, d, current_universe + (d - c) + 1, 0)
          ELSE AllUniverses(i + 1, n, c, d, current_universe + 1,
                            consecutive_count + 1))

\* io_manager.py 496: segment_to_universe[i] = all_universes[i]
TableOf(all_universes) ==
    [i \in 0..(Len(all_universes) - 1) |-> all_universes[i + 1]]

\* the values the IO_Manager fields have before a setting is changed
CfgInit(res, dir, c, d, rev, devrev) ==
    /\ resolution = res
    /\ addressing_direction = dir
    /\ consecutive_universes = c
    /\ device_universes = d
    /\ reverse_addressing = rev
    /\ device_order_reversed = devrev
    /\ builds = <<>>

\* IO_Manager.__init__ lines 44-51 and 283 (input_init starts the sACN
\* receiver of universe 0) and DMX_channels_Input.__init__
RxInit ==
    /\ input_source = "sacn"
    /\ input_universe = 0
    /\ input_port = 6454
    /\ input_dmx_address = 1
    /\ artnet_server = NoListener
    /\ receiver = 1
    /\ listening = {[id |-> 1, kind |-> "sacn", universe |-> 0, port |-> NoPort]}
    /\ opened = 1
    /\ channels = [i \in 0..(NChannels - 1) |-> 0]
    /\ ignore_external = FALSE
    /\ upd = NoCall
    /\ rd = NoCall
    /\ committed = {channels}
    /\ last = [op |-> "__init__", data |-> <<>>, code |-> 0, ignored |-> FALSE]
    /\ calls = 0

\* OutputCorrection.apply was not called yet
NoResult == [method |-> "", raised |-> FALSE, input |-> <<>>, buffer |-> <<>>]
\* run_loop made no step yet
NoPace == [starts |-> <<>>, ends |-> <<>>, naps |-> <<>>, nap |-> FALSE]

\* IO_Manager.__init__ lines 67-70: the output settings
CorrectionInit ==
    /\ black_on_close = TRUE
    /\ gamma_correction = "linear"
    /\ flip_top_bottom = FALSE
    /\ flip_left_right = FALSE
    /\ corrected = NoResult
\* IO_Manager.__init__ line 276: no frame was made yet
PaceInit ==
    /\ ts_last_frame = 0
    /\ wake = 0
    /\ pace = NoPace
\* the output settings and the pacing state after __init__
\* IO_Manager.__init__ line 274: no frame producer is registered
NoProducer == <<>>
\* no step() ran yet
NoStep == [calls |-> <<>>, raised |-> ""]
StepInit ==
    /\ create_frame = NoProducer
    /\ steplog = NoStep
LateInit == CorrectionInit /\ PaceInit /\ StepInit

\* the settings that output_artnet_init reads
Wiring ==
    [resolution |-> resolution, addressing_direction |-> addressing_direction,
     consecutive_universes |-> consecutive_universes,
     device_universes |-> device_universes]

\* variant of FirstUniverse: numbering goes on after the replaced sender
FirstUniverseAfterSender == Len(universes)
\* io_manager.py 488: current_universe = 0
FirstUniverse == 0

\* io_manager.py 479-511, run after a setting's on_change stored the new
\* value: the table is filled again and a new sender replaces the old one
output_artnet_init ==
    LET all_universes == AllUniverses(0, NumSegments', consecutive_universes',
                                      device_universes', FirstUniverse, 0)
    IN  /\ segment_to_universe' = TableOf(all_universes)
        /\ artnet_sender' = TRUE
        /\ NewSender(all_universes, PacketsPerUniverse')
        /\ builds' = Append(builds, [wiring |-> Wiring',
                                      table |-> segment_to_universe'])

\* the table and the sender that IO_Manager.__init__ line 284 builds
OutputInit ==
    LET all_universes == AllUniverses(0, NumSegments, consecutive_universes,
                                      device_universes, 0, 0)
    IN  /\ segment_to_universe = TableOf(all_universes)
        /\ artnet_sender = TRUE
        /\ TxInit(all_universes, PacketsPerUniverse, FALSE)

\* ---- OutputCorrection (io_manager.py 636-660) ----
\* io_manager.py 654-660: the keys of available_methods()
Methods == {"linear", "quadratic", "cubic", "quadruple", "2.2 gamma"}
\* io_manager.py 641-646: the exponent of each power curve
Power == [quadratic |-> 2, cubic |-> 3, quadruple |-> 4]

\* 255 ** k; k is at most 3
RECURSIVE MaxValPow(_)
MaxValPow(k) == IF k = 0 THEN 1 ELSE MaxValPow(k - 1) * MaxVal
\* output_buffer ** k on an array of dtype uint8: the product is kept in
\* eight bits after every multiplication
RECURSIVE PowU8(_, _)
PowU8(v, k) == IF k = 0 THEN 1 ELSE (PowU8(v, k - 1) * v) % U8

\* int(255 * ((v / 255) ** 2.2)) for v = 0, 1, ..., 255: the double
\* precision value of line 650 cut to an integer by astype(np.uint8); it
\* is the largest t with t^5 * 255^6 <= v^11
Gamma22Table ==
    <<
        0,   0,   0,   0,   0,   0,   0,   0,   0,   0,   0,   0,   0,   0,   0,   0,
        0,   0,   0,   0,   0,   1,   1,   1,   1,   1,   1,   1,   1,   2,   2,   2,
        2,   2,   3,   3,   3,   3,   3,   4,   4,   4,   4,   5,   5,   5,   5,   6,
        6,   6,   7,   7,   7,   8,   8,   8,   9,   9,   9,  10,  10,  10,  11,  11,
       12,  12,  13,  13,  13,  14,  14,  15,  15,  16,  16,  17,  17,  18,  18,  19,
       19,  20,  21,  21,  22,  22,  23,  23,  24,  25,  25,  26,  27,  27,  28,  29,
       29,  30,  31,  31,  32,  33,  33,  34,  35,  36,  36,  37,  38,  39,  40,  40,
       41,  42,  43,  44,  45,  45,  46,  47,  48,  49,  50,  51,  52,  53,  54,  55,
       55,  56,  57,  58,  59,  60,  61,  62,  63,  65,  66,  67,  68,  69,  70,  71,
       72,  73,  74,  75,  77,  78,  79,  80,  81,  82,  84,  85,  86,  87,  88,  90,
       91,  92,  93,  95,  96,  97,  99, 100, 101, 103, 104, 105, 107, 108, 109, 111,
      112, 114, 115, 117, 118, 119, 121, 122, 124, 125, 127, 128, 130, 131, 133, 135,
      136, 138, 139, 141, 142, 144, 146, 147, 149, 151, 152, 154, 156, 157, 159, 161,
      162, 164, 166, 168, 169, 171, 173, 175, 176, 178, 180, 182, 184, 186, 187, 189,
      191, 193, 195, 197, 199, 201, 203, 205, 207, 209, 211, 213, 215, 217, 219, 221,
      223, 225, 227, 229, 231, 233, 235, 237, 239, 241, 244, 246, 248, 250, 252, 255
    >>
\* variant of Gamma22: the gamma curve is computed as the quadratic branch
Gamma22AsQuadratic(v) == PowU8(v, 2) \div MaxVal
\* io_manager.py 648-650: (max_val * ((v / max_val) ** 2.2)).astype(np.uint8)
Gamma22(v) == Gamma22Table[v + 1]

\* io_manager.py 639-650: what apply does to one channel value v in 0..255
\* under a known method; "/" is a float division and astype(np.uint8) drops
\* the fraction
Curve(method, v) ==
    IF method = "linear" THEN v
    ELSE IF method = "2.2 gamma" THEN Gamma22(v)
    ELSE PowU8(v, Power[method]) \div MaxValPow(Power[method] - 1)

\* variant of apply: an unknown method leaves the buffer as it is
applyDefaultLinear(buf, method) ==
    [method |-> method, raised |-> FALSE, input |-> buf, buffer |-> buf]
\* io_manager.py 637-652: OutputCorrection.apply(output_buffer, method);
\* the outcome is a buffer, or the ValueError of line 652
apply(buf, method) ==
    IF method \notin Methods
    THEN [method |-> method, raised |-> TRUE, input |-> buf, buffer |-> <<>>]
    ELSE [method |-> method, raised |-> FALSE, input |-> buf,
          buffer |-> [x \in DOMAIN buf |->
                        [y \in DOMAIN buf[x] |->
                           [ch \in DOMAIN buf[x][y] |->
                              Curve(method, buf[x][y][ch])]]]]

\* ---- IO_Manager.update_artnet_output ----
\* buf.shape[0] and buf.shape[1] of a frame (the model has no empty frame)
Width(buf) == Cardinality(DOMAIN buf)
Height(buf) == Cardinality(DOMAIN buf[0])
Shape(buf) == <<Width(buf), Height(buf)>>

\* output_buffer[x, :, :].flatten().tolist(): column x, pixel by pixel
Column(buf, x) ==
    [k \in 1..(Height(buf) * PixelChannels) |->
        buf[x][(k - 1) \div PixelChannels][(k - 1) % PixelChannels]]
\* output_buffer[:, y, :], flipped along axis 0 when flip is set, flattened
Row(buf, y, flip) ==
    [k \in 1..(Width(buf) * PixelChannels) |->
        LET xi == (k - 1) \div PixelChannels
        IN  buf[IF flip THEN (Width(buf) - 1) - xi ELSE xi][y]
               [(k - 1) % PixelChannels]]

\* variant of Source: the block order is never reversed
SourceSame(x, n) == x
\* variant of Source: a last block that is not full counts as a block
SourceCountsPartialBlock(x, n) ==
    IF device_order_reversed /\ consecutive_universes > 0
    THEN LET num_blocks == (n + consecutive_universes - 1) \div consecutive_universes
             block_idx == x \div consecutive_universes
         IN  ((num_blocks - 1) - block_idx) * consecutive_universes
             + (x % consecutive_universes)
    ELSE x
\* io_manager.py 550-557 / 571-578: the segment whose data goes out under
\* index x, of n segments
Source(x, n) ==
    IF device_order_reversed /\ consecutive_universes > 0
    THEN LET num_blocks == n \div consecutive_universes
             block_idx == x \div consecutive_universes
         IN  IF block_idx < num_blocks
             THEN ((num_blocks - 1) - block_idx) * consecutive_universes
                  + (x % consecutive_universes)
             ELSE x
    ELSE x

\* np.flip(buf, axis=1): the rows of the frame in reverse order
FlipAxis1(buf) ==
    [x \in DOMAIN buf |->
       [y \in DOMAIN buf[x] |-> buf[x][(Height(buf) - 1) - y]]]
\* np.flip(buf, axis=0): the columns of the frame in reverse order
FlipAxis0(buf) == [x \in DOMAIN buf |-> buf[(Width(buf) - 1) - x]]
\* io_manager.py 531-536: the local output_buffer after the global flips
Flipped ==
    LET a == IF flip_top_bottom THEN FlipAxis1(output_buffer) ELSE output_buffer
    IN  IF flip_left_right THEN FlipAxis0(a) ELSE a
\* io_manager.py 538-539: the outcome of the correction of the local
\* output_buffer (self.gamma_correction holds a method name, never None)
Correction == apply(Flipped, gamma_correction)

\* StupidArtnet.set(value, universe) applied to the buffers ub
SetIn(ub, value, universe) ==
    IF Len(value) # packet_size THEN ub ELSE [ub EXCEPT ![universe] = value]

\* io_manager.py 542-544 / 566-568: the loop runs over the segments of the
\* resolution and breaks at the end of the table
Limit ==
    IF NumSegments < Cardinality(DOMAIN segment_to_universe)
    THEN NumSegments ELSE Cardinality(DOMAIN segment_to_universe)
\* io_manager.py 546-547: the table index that iteration k writes
IndexOf(k) ==
    IF addressing_direction = "vertical" /\ reverse_addressing
    THEN (resolution[1] - 1) - k ELSE k
\* source_x / source_y of iteration k
SourceOf(k) == Source(IndexOf(k), NumSegments)
\* lines 560 and 581 index the frame with the source: numpy raises
\* IndexError when the frame has no such column or row
InBuffer(k) ==
    IF addressing_direction = "vertical"
    THEN SourceOf(k) < Width(output_buffer)
    ELSE SourceOf(k) < Height(output_buffer)
\* dmx_values of iteration k.
\* Line 560 reads the local output_buffer, line 581 self.output_buffer.
dmx_values(k) ==
    IF addressing_direction = "vertical"
    THEN Column(Correction.buffer, SourceOf(k))
    ELSE Row(output_buffer, SourceOf(k), reverse_addressing)

\* io_manager.py 541-587: the iterations k, k+1, ... of the for loop over
\* the segments; the result is the pending buffers after the last set(),
\* or after the last one before the IndexError
RECURSIVE WriteSegments(_, _)
WriteSegments(ub, k) ==
    IF k >= Limit \/ ~InBuffer(k) THEN ub
    ELSE WriteSegments(SetIn(ub, dmx_values(k), segment_to_universe[IndexOf(k)]),
                       k + 1)
\* the calls of set() that the for loop makes from iteration k on
RECURSIVE SetCalls(_)
SetCalls(k) ==
    IF k >= Limit \/ ~InBuffer(k) THEN <<>>
    ELSE <<[op |-> "set", index |-> IndexOf(k),
            universe |-> segment_to_universe[IndexOf(k)],
            accepted |-> Len(dmx_values(k)) = packet_size]>> \o SetCalls(k + 1)
\* the for loop ends with an IndexError
IndexErrorRaised == \E k \in 0..(Limit - 1) : ~InBuffer(k)

\* a frame in which every byte tells its pixel and channel
TagFrame ==
    [x \in 0..(resolution[1] - 1) |->
       [y \in 0..(resolution[2] - 1) |->
          [ch \in 0..(PixelChannels - 1) |->
             (x * resolution[2] + y) * PixelChannels + ch + 1]]]
\* np.zeros((width, height, pixel_channels))
ZeroFrame ==
    [x \in 0..(resolution[1] - 1) |->
       [y \in 0..(resolution[2] - 1) |->
          [ch \in 0..(PixelChannels - 1) |-> 0]]]

\* IO_Manager.__init__ lines 272-279 and EffectManager.setup: no thread runs
IdleInit ==
    /\ run = FALSE
    /\ run_thread = NoThread
    /\ active_effect = "plain"
    /\ wanted = "plain"
    /\ is_active = FALSE
    /\ loop_thread = NoThread
    /\ pc = [t \in Threads |-> IF t = Main THEN "idle" ELSE "none"]
    /\ target = [t \in Workers |-> "none"]
    /\ idx = [t \in Threads |-> "plain"]
    /\ halted = {}
    /\ events = 0

\* the fields of Part 2 that the calls of Parts 3 and 4 leave alone
idlevars == <<run, run_thread, active_effect, wanted, is_active, loop_thread,
              pc, target, idx, halted, events>>

\* one more call, while fewer than max were made
Call(max) ==
    /\ calls < max
    /\ calls' = calls + 1

\* IO_Manager.__init__ lines 55-66 with a wall of two columns of one pixel
IoInit ==
    /\ CfgInit(<<2, 1>>, "vertical", 5, 8, TRUE, TRUE)
    /\ RxInit
    /\ LateInit

(***************************************************************************)
(* Specification SpecLoop: the main thread, the loop threads and the drive *)
(* threads of the video effect, interleaved statement by statement, for    *)
(* up to MaxEvents handler calls and channel changes.                      *)
(***************************************************************************)
InitLoop ==
    /\ now = StartTime
    /\ TxInit(<<0, 1>>, TxPacketSize, FALSE)
    /\ LoopInit
    /\ IoInit

NextLoop ==
    \/ Event(MaxEvents) /\ UiStartLoop
    \/ Event(MaxEvents) /\ UiStopLoop
    \/ Event(MaxEvents) /\ UiOutputInit
    \/ Event(MaxEvents) /\ SelectEffect
    \/ ThreadNext

SpecLoop == InitLoop /\ [][NextLoop]_vars

(***************************************************************************)
(* Specification SpecJoin: the same threads for up to MaxJoinEvents        *)
(* handler calls and channel changes; a thread that can return from a      *)
(* join eventually does.                                                   *)
(***************************************************************************)
NextJoin ==
    \/ Event(MaxJoinEvents) /\ UiStartLoop
    \/ Event(MaxJoinEvents) /\ UiStopLoop
    \/ Event(MaxJoinEvents) /\ UiOutputInit
    \/ Event(MaxJoinEvents) /\ SelectEffect
    \/ ThreadNext

JoinStep(t) == sl_join(t) \/ st_join(t) \/ sp_join(t)

SpecJoin ==
    /\ InitLoop
    /\ [][NextJoin]_vars
    /\ \A t \in Threads : WF_vars(JoinStep(t))


(***************************************************************************)
(* Specification SpecTx: a Transmitter for two universes, driven by any    *)
(* sequence of set / clear / show calls with any send outcomes.            *)
(***************************************************************************)
\* payloads handed to set(): n bytes all v, or only the first byte v
Fill(n, v) == [i \in 1..n |-> v]
First(n, v) == [i \in 1..n |-> IF i = 1 THEN v ELSE 0]
Payloads(n) == {Fill(n, 0), Fill(n, 255), First(n, 255)}

InitTx ==
    /\ now = StartTime
    /\ \E sync \in BOOLEAN : TxInit(<<0, 1>>, TxPacketSize, sync)
    /\ LoopInit
    /\ IoInit

TxSet ==
    /\ \E u \in Range(universes) \cup {NoUniverse},
          v \in Payloads(packet_size) \cup {Zeros(packet_size + 1)} : set(v, u)
    /\ UNCHANGED <<loopvars, iovars>>

TxClear ==
    /\ \E u \in Range(universes) \cup {NoUniverse} : clear(u)
    /\ UNCHANGED <<loopvars, iovars>>

TxShow ==
    /\ \A u \in Range(universes) : sequences[u] < MaxSeq
    /\ \E fails \in SUBSET Range(universes), syncOk \in BOOLEAN : show(fails, syncOk)
    /\ UNCHANGED <<loopvars, iovars>>

TxTick == Tick /\ UNCHANGED <<loopvars, iovars>>

NextTx == TxSet \/ TxClear \/ TxShow \/ TxTick

SpecTx == InitTx /\ [][NextTx]_vars

(***************************************************************************)
(* Specification SpecSeq: a Transmitter for the default single universe,   *)
(* with no limit on the number of show() calls, so that the sequence       *)
(* counter runs through all its values.                                    *)
(***************************************************************************)
InitSeq ==
    /\ now = StartTime
    /\ TxInit(<<0>>, TxPacketSize, FALSE)
    /\ LoopInit
    /\ IoInit

SeqSet ==
    /\ \E v \in {Fill(packet_size, 0), Fill(packet_size, 255)} : set(v, NoUniverse)
    /\ UNCHANGED <<loopvars, iovars>>

SeqShow ==
    /\ \E fails \in SUBSET Range(universes) : show(fails, TRUE)
    /\ UNCHANGED <<loopvars, iovars>>

SeqTick == Tick /\ UNCHANGED <<loopvars, iovars>>

NextSeq == SeqSet \/ SeqShow \/ SeqTick

SpecSeq == InitSeq /\ [][NextSeq]_vars

(***************************************************************************)
(* Specification SpecWire: a Transmitter for one universe, whose number    *)
(* and packet size are drawn in the initial state, driven by set and show  *)
(* calls with any send outcome; the sequence counter runs through all its  *)
(* values.                                                                 *)
(***************************************************************************)
\* universe numbers with a low byte, a high byte or both
WireUniverses == {0, 255, 256, 32767}
\* the smallest packet size tried, and the largest one there is
WireSizes == {TxPacketSize, 512}

InitWire ==
    /\ now = StartTime
    /\ \E u \in WireUniverses, size \in WireSizes, sync \in BOOLEAN :
          TxInit(<<u>>, size, sync)
    /\ LoopInit
    /\ IoInit

WireSet ==
    /\ \E v \in {Fill(packet_size, 255), First(packet_size, 7)} : set(v, NoUniverse)
    /\ UNCHANGED <<loopvars, iovars>>

WireShow ==
    /\ \E fails \in SUBSET Range(universes), syncOk \in BOOLEAN : show(fails, syncOk)
    /\ UNCHANGED <<loopvars, iovars>>

NextWire == WireSet \/ WireShow

SpecWire == InitWire /\ [][NextWire]_vars

(***************************************************************************)
(* Specification SpecBuf: a Transmitter for two universes is driven by up  *)
(* to MaxBufCalls calls of set, clear, set_packet_size, set_universe and   *)
(* show; set and clear are also given a universe that is not in the list.  *)
(***************************************************************************)
\* a universe number that the sender was not built for
StrayUniverse == 7

InitBuf ==
    /\ now = StartTime
    /\ TxInit(<<0, 1>>, TxPacketSize, FALSE)
    /\ LoopInit
    /\ IoInit

\* the history entry of a call on the Transmitter
TxDid(op, data, u) == [op |-> op, data |-> data, code |-> u, ignored |-> FALSE]
\* what a call of SpecBuf leaves alone
BufFrame ==
    UNCHANGED <<loopvars, cfgvars, rxvars, channels, ignore_external, upd, rd,
                committed, builds, latevars>>

BufSet ==
    /\ Call(MaxBufCalls)
    /\ \E u \in Range(universes) \cup {NoUniverse, StrayUniverse},
          v \in {Fill(packet_size, 255), Zeros(packet_size + 1)} :
          /\ set(v, u)
          /\ last' = TxDid("set", v, u)
    /\ BufFrame

BufClear ==
    /\ Call(MaxBufCalls)
    /\ \E u \in Range(universes) \cup {NoUniverse, StrayUniverse} :
          /\ clear(u)
          /\ last' = TxDid("clear", <<>>, u)
    /\ BufFrame

BufSetPacketSize ==
    /\ Call(MaxBufCalls)
    /\ \E size \in {1, 3 * TxPacketSize - 1, 600} :
          /\ set_packet_size(size)
          /\ last' = TxDid("set_packet_size", <<>>, size)
    /\ BufFrame

BufSetUniverse ==
    /\ Call(MaxBufCalls)
    /\ \E u \in {1, 256} :
          /\ set_universe(u)
          /\ last' = TxDid("set_universe", <<>>, u)
    /\ BufFrame

BufShow ==
    /\ Call(MaxBufCalls)
    /\ \E fails \in SUBSET Range(universes) : show(fails, TRUE)
    /\ last' = TxDid("show", <<>>, 0)
    /\ BufFrame

NextBuf == BufSet \/ BufClear \/ BufSetPacketSize \/ BufSetUniverse \/ BufShow

SpecBuf == InitBuf /\ [][NextBuf]_vars

(***************************************************************************)
(* Specification SpecCfg: the sender of a wall of two columns is written   *)
(* and shown, resized, narrowed to one universe, and rebuilt after a       *)
(* change of the wiring settings.                                          *)
(***************************************************************************)
InitCfg ==
    /\ now = StartTime
    /\ IoInit
    /\ OutputInit
    /\ IdleInit
    /\ output_buffer = "zeros"

CfgSet ==
    /\ \E u \in Range(universes) : set(Fill(packet_size, 255), u)
    /\ UNCHANGED <<loopvars, iovars>>

CfgShow ==
    /\ \A u \in Range(universes) : sequences[u] < MaxCfgSeq
    /\ show({}, TRUE)
    /\ UNCHANGED <<loopvars, iovars>>

CfgSetPacketSize ==
    /\ \E size \in {TxPacketSize, 3 * TxPacketSize - 1} : set_packet_size(size)
    /\ UNCHANGED <<loopvars, iovars>>

CfgSetUniverse ==
    /\ \E u \in {0, 1, 256} : set_universe(u)
    /\ UNCHANGED <<loopvars, iovars>>

\* io_manager.py 239 and 248: the on_change of the two universe settings
CfgChangeWiring ==
    /\ Len(builds) < MaxCfgSeq
    /\ \E c \in 1..MaxConsecutive, d \in {MaxConsecutive, MaxConsecutive + 1} :
          /\ <<c, d>> # <<consecutive_universes, device_universes>>
          /\ consecutive_universes' = c
          /\ device_universes' = d
    /\ UNCHANGED <<resolution, addressing_direction, reverse_addressing,
                   device_order_reversed>>
    /\ output_artnet_init
    /\ UNCHANGED <<idlevars, output_buffer, rxvars, chvars, calls, latevars>>

NextCfg == CfgSet \/ CfgShow \/ CfgSetPacketSize \/ CfgSetUniverse \/ CfgChangeWiring

SpecCfg == InitCfg /\ [][NextCfg]_vars

(***************************************************************************)
(* Specification SpecPace: one loop thread runs run_loop while the clock   *)
(* advances in milliseconds up to MaxPaceTime; a step() takes any time,    *)
(* a sleep() at least the time it was asked for; the loop may be stopped.  *)
(* FramePeriod is 1 / self.framerate in milliseconds.                      *)
(***************************************************************************)
\* the loop thread
Pacer == 1

\* variant of StampNow: the next frame is due one period after the time
\* the last one was due
StampNextPeriod(t) == ts_last_frame + FramePeriod
\* io_manager.py 376: self.ts_last_frame = time.time()
StampNow(t) == t
\* io_manager.py 391: time.time() - self.ts_last_frame < 1 / self.framerate
TooEarly(t) == t - ts_last_frame < FramePeriod
\* io_manager.py 393: max((1 / framerate) - (time.time() - ts) - 0.001, 0.001)
SleepFor(t) ==
    LET d == FramePeriod - (t - ts_last_frame) - Millis
    IN  IF d > Millis THEN d ELSE Millis

\* the loop thread was started (start_loop, io_manager.py 326-329); the
\* clock is far beyond the initial ts_last_frame of 0
InitPace ==
    /\ now = FramePeriod
    /\ TxInit(<<0>>, TxPacketSize, FALSE)
    /\ IoInit
    /\ run = TRUE
    /\ run_thread = Pacer
    /\ artnet_sender = TRUE
    /\ segment_to_universe = "built"
    /\ output_buffer = "zeros"
    /\ active_effect = "plain"
    /\ wanted = "plain"
    /\ is_active = FALSE
    /\ loop_thread = NoThread
    /\ pc = [t \in Threads |->
               IF t = Main THEN "idle" ELSE IF t = Pacer THEN "rl_run" ELSE "none"]
    /\ target = [t \in Workers |-> IF t = Pacer THEN "run_loop" ELSE "none"]
    /\ idx = [t \in Threads |-> "plain"]
    /\ halted = {}
    /\ events = 0

\* what the steps of SpecPace leave alone besides the fields they name
PaceFrame ==
    UNCHANGED <<universes, packet_size, universe_buffer, last_sent_buffer,
                last_send_time, sequences, if_sync, sweep, fresh, sent_at,
                run_thread, artnet_sender, segment_to_universe, output_buffer,
                active_effect, wanted, is_active, loop_thread, target, idx,
                halted, events, cfgvars, rxvars, chvars, calls, builds, outvars,
                stepvars>>

\* the clock advances by one millisecond
PaceTick ==
    /\ now < MaxPaceTime
    /\ now' = now + 1
    /\ UNCHANGED <<run, pc, pacevars>>
    /\ PaceFrame

\* io_manager.py 390: while self.run
PaceRun ==
    /\ pc[Pacer] = "rl_run"
    /\ Goto(Pacer, IF run THEN "rl_wait" ELSE "none")
    /\ UNCHANGED <<now, run, pacevars>>
    /\ PaceFrame

\* io_manager.py 391: the condition of the inner while
PaceWait ==
    /\ pc[Pacer] = "rl_wait"
    /\ Goto(Pacer, IF TooEarly(now) THEN "rl_arg" ELSE "rl_step")
    /\ UNCHANGED <<now, run, pacevars>>
    /\ PaceFrame

\* io_manager.py 393: the argument of time.sleep is computed and the
\* thread goes to sleep
PaceSleep ==
    /\ pc[Pacer] = "rl_arg"
    /\ wake' = now + SleepFor(now)
    /\ pace' = [pace EXCEPT !.nap = TRUE]
    /\ Goto(Pacer, "rl_sleep")
    /\ UNCHANGED <<now, run, ts_last_frame>>
    /\ PaceFrame

\* time.sleep returns, not before the time asked for is over
PaceWake ==
    /\ pc[Pacer] = "rl_sleep"
    /\ now >= wake
    /\ Goto(Pacer, "rl_wait")
    /\ UNCHANGED <<now, run, pacevars>>
    /\ PaceFrame

\* io_manager.py 395 and 376: step() is called and stamps ts_last_frame
PaceStepBegin ==
    /\ pc[Pacer] = "rl_step"
    /\ ts_last_frame' = StampNow(now)
    /\ pace' = [pace EXCEPT !.starts = Append(pace.starts, now),
                            !.naps = Append(pace.naps, pace.nap)]
    /\ Goto(Pacer, "rl_in_step")
    /\ UNCHANGED <<now, run, wake>>
    /\ PaceFrame

\* io_manager.py 378-383: step() returns after the frame was produced and
\* sent, however long that took
PaceStepEnd ==
    /\ pc[Pacer] = "rl_in_step"
    /\ pace' = [pace EXCEPT !.ends = Append(pace.ends, now), !.nap = FALSE]
    /\ Goto(Pacer, "rl_run")
    /\ UNCHANGED <<now, run, ts_last_frame, wake>>
    /\ PaceFrame

\* io_manager.py 357: stop_thread() clears the run flag
PaceStop ==
    /\ pc[Main] = "idle"
    /\ run
    /\ run' = FALSE
    /\ UNCHANGED <<now, pc, pacevars>>
    /\ PaceFrame

NextPace ==
    \/ PaceTick \/ PaceRun \/ PaceWait \/ PaceSleep \/ PaceWake
    \/ PaceStepBegin \/ PaceStepEnd \/ PaceStop

SpecPace == InitPace /\ [][NextPace]_vars

(***************************************************************************)
(* Specification SpecCurve: OutputCorrection.apply is called once on a     *)
(* buffer of one pixel; the channel values and the method name are drawn   *)
(* in the initial state.                                                   *)
(***************************************************************************)
\* the method names tried: the five known names and one that is not known
AnyMethod == Methods \cup {"unknown"}
\* a uint8 frame whose channels hold v and 255 - v in turn
SampleFrame(v) ==
    [x \in 0..(resolution[1] - 1) |->
       [y \in 0..(resolution[2] - 1) |->
          [ch \in 0..(PixelChannels - 1) |->
             IF ch % 2 = 0 THEN v ELSE MaxVal - v]]]

InitCurve ==
    /\ now = StartTime
    /\ CfgInit(<<1, 1>>, "vertical", 1, 1, FALSE, FALSE)
    /\ RxInit
    /\ PaceInit
    /\ StepInit
    /\ OutputInit
    /\ IdleInit
    /\ black_on_close = TRUE
    /\ flip_top_bottom = FALSE
    /\ flip_left_right = FALSE
    /\ corrected = NoResult
    /\ \E v \in 0..MaxVal, m \in AnyMethod :
          /\ output_buffer = SampleFrame(v)
          /\ gamma_correction = m

\* io_manager.py 539: OutputCorrection.apply(output_buffer, method)
CurveApply ==
    /\ corrected = NoResult
    /\ corrected' = apply(output_buffer, gamma_correction)
    /\ UNCHANGED <<txvars, loopvars, cfgvars, rxvars, chvars, calls, builds,
                   pacevars, stepvars, flip_top_bottom, flip_left_right,
                   gamma_correction, black_on_close>>

NextCurve == CurveApply

SpecCurve == InitCurve /\ [][NextCurve]_vars

(***************************************************************************)
(* Specification SpecRx: the input settings are changed, packets arrive at *)
(* the listeners, the effect writes the channels and the ignore switch is  *)
(* toggled, one call after the other, for up to MaxRxCalls calls.          *)
(***************************************************************************)
\* a payload of n bytes b+1, b+2, ...
Ramp(n, b) == [i \in 1..n |-> b + i]
\* payloads one byte too short for address 1, exact, and one byte longer
InboundPayloads ==
    {Ramp(n, b) : n \in (NChannels - 1)..(NChannels + 1), b \in {10, 100}}
\* value lists of update_DMX_channels: short, out of range, too long
LocalValues == {<<-5>>, <<300, 20>>, Ramp(NChannels + 1, 50)}

InitRx ==
    /\ now = StartTime
    /\ IoInit
    /\ OutputInit
    /\ IdleInit
    /\ output_buffer = "zeros"

\* what a call of Part 3 leaves alone besides the fields it names
RxFrame == UNCHANGED <<txvars, loopvars, cfgvars, builds, latevars, upd, rd>>

\* a packet for the universe of an Art-Net server arrives
RxArtnetFrame ==
    /\ Call(MaxRxCalls)
    /\ \E l \in listening, data \in InboundPayloads :
          /\ l.kind = "artnet"
          /\ on_artnet_frame(data)
          /\ last' = [op |-> "on_artnet_frame", data |-> data, code |-> 0,
                      ignored |-> ignore_external]
    /\ UNCHANGED <<rxvars, ignore_external>>
    /\ RxFrame

\* a packet for the universe of a sACN receiver arrives
RxSacnPacket ==
    /\ Call(MaxRxCalls)
    /\ \E l \in listening, data \in InboundPayloads, code \in {0, 221} :
          /\ l.kind = "sacn"
          /\ callback([dmxStartCode |-> code, dmxData |-> data])
          /\ last' = [op |-> "callback", data |-> data, code |-> code,
                      ignored |-> ignore_external]
    /\ UNCHANGED <<rxvars, ignore_external>>
    /\ RxFrame

\* io_manager.py 591-592: update_DMX_channels(channels)
RxLocalUpdate ==
    /\ Call(MaxRxCalls)
    /\ \E values \in LocalValues :
          /\ update_sliders(values, FALSE)
          /\ last' = [op |-> "update_DMX_channels", data |-> values, code |-> 0,
                      ignored |-> ignore_external]
    /\ UNCHANGED <<rxvars, ignore_external>>
    /\ RxFrame

\* dmx_channels.py 37-41: the switch bound to ignore_external is flipped
RxToggleIgnore ==
    /\ Call(MaxRxCalls)
    /\ ignore_external' = ~ignore_external
    /\ last' = [op |-> "ignore_external", data |-> <<>>, code |-> 0,
                ignored |-> ignore_external']
    /\ UNCHANGED <<rxvars, channels, committed>>
    /\ RxFrame

\* io_manager.py 143: the on_change of the source setting
RxSelectSource ==
    /\ Call(MaxRxCalls)
    /\ \E src \in {"artnet", "sacn", "dmx", "none"} :
          /\ src # input_source
          /\ input_source' = src
          /\ input_init(NoArg)
    /\ last' = [op |-> "input_init", data |-> <<>>, code |-> 0,
                ignored |-> ignore_external]
    /\ UNCHANGED <<channels, ignore_external, committed>>
    /\ RxFrame

\* io_manager.py 152: the on_change of the DMX address setting
RxSetAddress ==
    /\ Call(MaxRxCalls)
    /\ \E a \in 1..MaxAddress :
          /\ a # input_dmx_address
          /\ input_source' = input_source
          /\ input_init(a)
    /\ last' = [op |-> "input_init", data |-> <<>>, code |-> 0,
                ignored |-> ignore_external]
    /\ UNCHANGED <<channels, ignore_external, committed>>
    /\ RxFrame

\* input_artnet_init / input_sacn_init called with another universe
RxSubscribe ==
    /\ Call(MaxRxCalls)
    /\ input_source \in {"artnet", "sacn"}
    /\ \E u \in {0, 1} :
          /\ u # input_universe
          /\ IF input_source = "artnet"
             THEN input_artnet_init(u, NoArg)
             ELSE input_sacn_init(u, NoArg)
    /\ last' = [op |-> "input_init", data |-> <<>>, code |-> 0,
                ignored |-> ignore_external]
    /\ UNCHANGED <<input_source, input_dmx_address, channels, ignore_external,
                   committed>>
    /\ RxFrame

NextRx ==
    \/ RxArtnetFrame
    \/ RxSacnPacket
    \/ RxLocalUpdate
    \/ RxToggleIgnore
    \/ RxSelectSource
    \/ RxSetAddress
    \/ RxSubscribe

SpecRx == InitRx /\ [][NextRx]_vars

(***************************************************************************)
(* Specification SpecRace: the thread of the sACN receiver runs            *)
(* update_sliders while a loop worker runs get_channels; both are          *)
(* interleaved at every access to self.channels (there is no lock).        *)
(***************************************************************************)
RaceFrame ==
    UNCHANGED <<txvars, loopvars, cfgvars, builds, latevars, rxvars, ignore_external>>

\* the receiver thread is given a packet: on the way to dmx_channels.py 70
RaceDeliver ==
    /\ upd = NoCall
    /\ Call(MaxRaceCalls)
    /\ \E b \in {10, 100} :
          upd' = [values |-> Slice(Ramp(NChannels, b), input_dmx_address - 1,
                                   NChannels),
                  i |-> 0]
    /\ ~Ignored(TRUE)
    /\ UNCHANGED <<channels, rd, committed, last>>
    /\ RaceFrame

\* dmx_channels.py 70-72: one iteration of the for loop; line 75 follows
\* the last one and the call returns
RaceWrite ==
    /\ upd # NoCall
    /\ channels' = [channels EXCEPT ![upd.i] = Clamp(upd.values[upd.i + 1])]
    /\ IF upd.i + 1 < Len(upd.values)
       THEN upd' = [upd EXCEPT !.i = upd.i + 1] /\ UNCHANGED committed
       ELSE upd' = NoCall /\ committed' = committed \cup {channels'}
    /\ UNCHANGED <<rd, last, calls>>
    /\ RaceFrame

\* io_manager.py 378: the loop worker calls get_channels()
RaceGet ==
    /\ rd = NoCall
    /\ Call(MaxRaceCalls)
    /\ rd' = [acc |-> <<>>, i |-> 0]
    /\ UNCHANGED <<channels, upd, committed, last>>
    /\ RaceFrame

\* dmx_channels.py 82: the comprehension takes one more value; after the
\* last one the list is returned
RaceRead ==
    /\ rd # NoCall
    /\ LET acc == Append(rd.acc, channels[rd.i])
       IN  IF rd.i + 1 < Cardinality(DOMAIN channels)
           THEN rd' = [acc |-> acc, i |-> rd.i + 1] /\ UNCHANGED last
           ELSE /\ rd' = NoCall
                /\ last' = [op |-> "get_channels", data |-> acc, code |-> 0,
                            ignored |-> ignore_external]
    /\ UNCHANGED <<channels, upd, committed, calls>>
    /\ RaceFrame

NextRace == RaceDeliver \/ RaceWrite \/ RaceGet \/ RaceRead

SpecRace == InitRx /\ [][NextRace]_vars

(***************************************************************************)
(* Specification SpecMap: an IO_Manager with any of the wiring settings    *)
(* below; frames are produced and sent with update_artnet_output, and up   *)
(* to MaxMapCalls settings are changed in between.                         *)
(***************************************************************************)
Resolutions == {<<4, 1>>, <<3, 2>>, <<5, 1>>}
Directions == {"vertical", "horizontal"}

InitMap ==
    /\ now = StartTime
    /\ \E res \in Resolutions, dir \in Directions, c \in 1..MaxConsecutive,
          d \in {MaxConsecutive, MaxConsecutive + 1}, rev \in BOOLEAN,
          devrev \in BOOLEAN : CfgInit(res, dir, c, d, rev, devrev)
    /\ RxInit
    /\ LateInit
    /\ OutputInit
    /\ IdleInit
    /\ output_buffer = ZeroFrame

\* the history entry of a call that is not a delivery
Did(op) == [op |-> op, data |-> <<>>, code |-> 0, ignored |-> ignore_external]

\* io_manager.py 379-381: step() stores the frame of the frame producer
MapFrame ==
    /\ pc[Main] = "idle"
    /\ output_buffer # TagFrame
    /\ output_buffer' = TagFrame
    /\ last' = Did("step")
    /\ UNCHANGED <<txvars, idlevars, artnet_sender, segment_to_universe, cfgvars,
                   rxvars, channels, ignore_external, upd, rd, committed, calls,
                   builds, latevars>>

\* io_manager.py 516-587: update_artnet_output up to the last set()
MapWrite ==
    /\ pc[Main] = "idle"
    /\ artnet_sender
    /\ \A u \in Range(universes) : sequences[u] < MaxCfgSeq
    /\ universe_buffer' = WriteSegments(universe_buffer, 0)
    /\ fresh' = {u \in fresh : universe_buffer'[u] = universe_buffer[u]}
    /\ sweep' = NoSweep
    /\ Goto(Main, "uao_show")
    /\ last' = Did("update_artnet_output")
    /\ UNCHANGED <<universes, packet_size, last_sent_buffer, last_send_time,
                   sequences, if_sync, now, sent_at>>
    /\ UNCHANGED <<run, run_thread, active_effect, wanted, is_active,
                   loop_thread, target, idx, halted, events>>
    /\ UNCHANGED <<artnet_sender, segment_to_universe, output_buffer, cfgvars,
                   rxvars, channels, ignore_external, upd, rd, committed, calls,
                   builds, latevars>>

\* io_manager.py 589: self.artnet_sender.show()
MapShow ==
    /\ pc[Main] = "uao_show"
    /\ show({}, TRUE)
    /\ Goto(Main, "idle")
    /\ UNCHANGED <<run, run_thread, active_effect, wanted, is_active,
                   loop_thread, target, idx, halted, events>>
    /\ UNCHANGED <<artnet_sender, segment_to_universe, output_buffer, iovars>>

\* io_manager.py 223 and 231: the on_change of the two reversal switches
MapSetReversal ==
    /\ pc[Main] = "idle"
    /\ Call(MaxMapCalls)
    /\ \/ reverse_addressing' = ~reverse_addressing
          /\ UNCHANGED device_order_reversed
       \/ device_order_reversed' = ~device_order_reversed
          /\ UNCHANGED reverse_addressing
    /\ last' = Did("settings")
    /\ UNCHANGED <<resolution, addressing_direction, consecutive_universes,
                   device_universes, builds, latevars>>
    /\ UNCHANGED <<txvars, idlevars, artnet_sender, segment_to_universe,
                   output_buffer, rxvars, channels, ignore_external, upd, rd,
                   committed>>

\* io_manager.py 198, 239 and 248: the on_change of the direction and of
\* the two universe settings
MapSetWiring ==
    /\ pc[Main] = "idle"
    /\ Call(MaxMapCalls)
    /\ \E dir \in Directions, c \in 1..MaxConsecutive,
          d \in {MaxConsecutive, MaxConsecutive + 1} :
          /\ \/ dir # addressing_direction /\ c = consecutive_universes
                /\ d = device_universes
             \/ dir = addressing_direction /\ c # consecutive_universes
                /\ d = device_universes
             \/ dir = addressing_direction /\ c = consecutive_universes
                /\ d # device_universes
          /\ addressing_direction' = dir
          /\ consecutive_universes' = c
          /\ device_universes' = d
    /\ UNCHANGED <<resolution, reverse_addressing, device_order_reversed>>
    /\ output_artnet_init
    /\ last' = Did("settings")
    /\ UNCHANGED <<idlevars, output_buffer, rxvars, channels, ignore_external,
                   upd, rd, committed, latevars>>

NextMap == MapFrame \/ MapWrite \/ MapShow \/ MapSetReversal \/ MapSetWiring

SpecMap == InitMap /\ [][NextMap]_vars

(***************************************************************************)
(* Specification SpecOut: a wall of 2 x 2 pixels; the flips and the        *)
(* correction method are changed (up to MaxOutCalls times) between frames  *)
(* that are produced and sent with update_artnet_output.                   *)
(***************************************************************************)
\* a uint8 frame of bright values in which every byte tells its pixel and
\* channel
BrightFrame ==
    [x \in 0..(resolution[1] - 1) |->
       [y \in 0..(resolution[2] - 1) |->
          [ch \in 0..(PixelChannels - 1) |->
             MaxVal - ((x * resolution[2] + y) * PixelChannels + ch)]]]

InitOut ==
    /\ now = StartTime
    /\ \E dir \in Directions, devrev \in BOOLEAN :
          CfgInit(<<2, 2>>, dir, 1, 1, FALSE, devrev)
    /\ RxInit
    /\ LateInit
    /\ OutputInit
    /\ IdleInit
    /\ output_buffer = ZeroFrame

\* what the calls of SpecOut leave alone besides the fields they name
OutFrame_ ==
    UNCHANGED <<idlevars, artnet_sender, segment_to_universe, cfgvars, rxvars,
                channels, ignore_external, upd, rd, committed, builds, pacevars, stepvars,
                black_on_close>>

\* io_manager.py 379-381: step() stores the frame of the frame producer
OutFrame ==
    /\ pc[Main] = "idle"
    /\ output_buffer # BrightFrame
    /\ output_buffer' = BrightFrame
    /\ last' = Did("step")
    /\ OutFrame_
    /\ UNCHANGED <<txvars, calls, flip_top_bottom, flip_left_right,
                   gamma_correction, corrected>>

\* io_manager.py 207 and 215: the on_change of the two flip switches
OutSetFlip ==
    /\ pc[Main] = "idle"
    /\ Call(MaxOutCalls)
    /\ \/ flip_top_bottom' = ~flip_top_bottom /\ UNCHANGED flip_left_right
       \/ flip_left_right' = ~flip_left_right /\ UNCHANGED flip_top_bottom
    /\ last' = Did("settings")
    /\ OutFrame_
    /\ UNCHANGED <<txvars, output_buffer, gamma_correction, corrected>>

\* io_manager.py 265: the on_change of the correction setting stores the
\* value it is given
OutSetGamma ==
    /\ pc[Main] = "idle"
    /\ Call(MaxOutCalls)
    /\ \E m \in AnyMethod \ {gamma_correction} : gamma_correction' = m
    /\ last' = Did("settings")
    /\ OutFrame_
    /\ UNCHANGED <<txvars, output_buffer, flip_top_bottom, flip_left_right,
                   corrected>>

\* io_manager.py 516-587: update_artnet_output up to the last set(); the
\* ValueError of apply ends the call before any set()
OutWrite ==
    /\ pc[Main] = "idle"
    /\ artnet_sender
    /\ \A u \in Range(universes) : sequences[u] < MaxCfgSeq
    /\ corrected' = Correction
    /\ IF Correction.raised
       THEN /\ last' = Did("ValueError")
            /\ UNCHANGED <<txvars, pc>>
       ELSE /\ universe_buffer' = WriteSegments(universe_buffer, 0)
            /\ fresh' = {u \in fresh : universe_buffer'[u] = universe_buffer[u]}
            /\ sweep' = NoSweep
            /\ Goto(Main, "uao_show")
            /\ last' = Did("update_artnet_output")
            /\ UNCHANGED <<universes, packet_size, last_sent_buffer,
                           last_send_time, sequences, if_sync, now, sent_at>>
    /\ UNCHANGED <<run, run_thread, active_effect, wanted, is_active,
                   loop_thread, target, idx, halted, events>>
    /\ UNCHANGED <<artnet_sender, segment_to_universe, output_buffer, cfgvars,
                   rxvars, channels, ignore_external, upd, rd, committed, calls,
                   builds, pacevars, stepvars, flip_top_bottom, flip_left_right,
                   gamma_correction, black_on_close>>

\* io_manager.py 589: self.artnet_sender.show()
OutShow ==
    /\ pc[Main] = "uao_show"
    /\ show({}, TRUE)
    /\ Goto(Main, "idle")
    /\ UNCHANGED <<run, run_thread, active_effect, wanted, is_active,
                   loop_thread, target, idx, halted, events>>
    /\ UNCHANGED <<artnet_sender, segment_to_universe, output_buffer, iovars>>

NextOut == OutFrame \/ OutSetFlip \/ OutSetGamma \/ OutWrite \/ OutShow

SpecOut == InitOut /\ [][NextOut]_vars

(***************************************************************************)
(* Specification SpecClose: frames are produced and sent on a wall of      *)
(* 2 x 2 pixels; then the engine is torn down, by EffectManager.shutdown   *)
(* or by the finalisation of the IO_Manager, in either order.  The         *)
(* black_on_close setting is drawn in the initial state.                   *)
(***************************************************************************)
InitClose ==
    /\ now = StartTime
    /\ \E dir \in Directions, devrev \in BOOLEAN :
          CfgInit(<<2, 2>>, dir, 1, 1, FALSE, devrev)
    /\ RxInit
    /\ PaceInit
    /\ StepInit
    /\ black_on_close \in BOOLEAN
    /\ gamma_correction = "linear"
    /\ flip_top_bottom = FALSE
    /\ flip_left_right = FALSE
    /\ corrected = NoResult
    /\ OutputInit
    /\ IdleInit
    /\ output_buffer = ZeroFrame

\* io_manager.py 331-343: stop_loop() up to the join of the loop thread:
\* the run flag is cleared, the listeners are closed and the sender is
\* deleted (StupidArtnet.__del__ stops and closes, it sends nothing)
stop_loop ==
    /\ run' = FALSE
    /\ artnet_server' = NoListener
    /\ listening' = {l \in listening : l.id # artnet_server /\ l.id # receiver}
    /\ artnet_sender' = FALSE
    /\ UNCHANGED <<input_source, input_universe, input_port, input_dmx_address,
                   receiver, opened>>

\* what the teardown steps leave alone besides the fields they name
CloseFrame ==
    UNCHANGED <<run_thread, active_effect, wanted, is_active, loop_thread,
                target, idx, halted, events, segment_to_universe, cfgvars,
                channels, ignore_external, upd, rd, committed, calls, builds,
                pacevars, stepvars, flip_top_bottom, flip_left_right, gamma_correction,
                black_on_close>>

\* effect_manager.py 308-311: shutdown() calls IO_manager.stop_loop()
CloseShutdown ==
    /\ pc[Main] = "idle"
    /\ artnet_sender
    /\ stop_loop
    /\ last' = Did("shutdown")
    /\ UNCHANGED <<txvars, pc, output_buffer, corrected>>
    /\ CloseFrame

\* io_manager.py 364-368: __del__ stores the black frame when black_on_close
\* is set and update_artnet_output, if there still is a sender, writes it
\* to the pending buffers
CloseDelWrite ==
    /\ pc[Main] = "idle"
    /\ last.op # "__del__"
    /\ output_buffer' = IF black_on_close THEN ZeroFrame ELSE output_buffer
    /\ IF black_on_close /\ artnet_sender
       THEN /\ universe_buffer' =
                  [u \in DOMAIN universe_buffer |->
                     IF u \in {segment_to_universe[i] : i \in 0..(NumSegments - 1)}
                     THEN Zeros(packet_size) ELSE universe_buffer[u]]
            /\ fresh' = {u \in fresh : universe_buffer'[u] = universe_buffer[u]}
            /\ sweep' = NoSweep
            /\ corrected' = apply(ZeroFrame, gamma_correction)
            /\ Goto(Main, "del_show")
            /\ UNCHANGED <<universes, packet_size, last_sent_buffer,
                           last_send_time, sequences, if_sync, now, sent_at>>
       ELSE /\ Goto(Main, "del_stop")
            /\ UNCHANGED <<txvars, corrected>>
    /\ last' = Did("__del__")
    /\ UNCHANGED <<run, artnet_sender, rxvars>>
    /\ CloseFrame

\* io_manager.py 589 within __del__: the black frame is shown
CloseDelShow ==
    /\ pc[Main] = "del_show"
    /\ show({}, TRUE)
    /\ Goto(Main, "del_stop")
    /\ UNCHANGED <<run, artnet_sender, rxvars, output_buffer, corrected, last>>
    /\ CloseFrame

\* io_manager.py 370: __del__ ends with stop_loop()
CloseDelStop ==
    /\ pc[Main] = "del_stop"
    /\ stop_loop
    /\ Goto(Main, "idle")
    /\ UNCHANGED <<txvars, output_buffer, corrected, last>>
    /\ CloseFrame

NextClose ==
    \/ OutFrame \/ OutWrite \/ OutShow
    \/ CloseShutdown \/ CloseDelWrite \/ CloseDelShow \/ CloseDelStop

SpecClose == InitClose /\ [][NextClose]_vars

(***************************************************************************)
(* Specification SpecSetup: an IO_Manager with or without a registered     *)
(* frame producer; the loop is started, frames are made and sent, and up   *)
(* to MaxSetupCalls times the user changes the resolution or one of the    *)
(* two universe settings; the columns are the segments.  The number inputs *)
(* of the settings page have no minimum, so 0 can be entered.              *)
(***************************************************************************)
\* the resolutions at start: a payload of 4 bytes, and one of 516 bytes
SetupSizes == {<<2, 1>>, <<1, 129>>}
\* the values entered for the width and for the height
SetupWidths == {0, 2, 3}
SetupHeights == {1, 2}

\* the frame an effect makes for the resolution res it was built with
\* (base_effect.py 47): width x height x 4 bytes
Produced(res) ==
    [x \in 0..(res[1] - 1) |->
       [y \in 0..(res[2] - 1) |->
          [ch \in 0..(PixelChannels - 1) |->
             ((x * res[2] + y) * PixelChannels + ch + 1) % U8]]]

\* IO_Manager.__init__, then EffectManager.__init__ (effect_manager.py 29
\* copies the resolution) and setup() (76 registers the producer)
InitSetup ==
    /\ now = StartTime
    /\ \E res \in SetupSizes, c \in 1..MaxConsecutive, registered \in BOOLEAN :
          /\ CfgInit(res, "vertical", c, MaxConsecutive, FALSE, TRUE)
          /\ create_frame = IF registered THEN res ELSE NoProducer
    /\ RxInit
    /\ CorrectionInit
    /\ PaceInit
    /\ steplog = NoStep
    /\ OutputInit
    /\ IdleInit
    /\ output_buffer = ZeroFrame

\* what a change of a setting leaves alone
SettingFrame ==
    UNCHANGED <<idlevars, output_buffer, rxvars, channels, ignore_external,
                upd, rd, committed, latevars>>

\* io_manager.py 79 and 89: the on_change of the width and of the height
SetupSetResolution ==
    /\ pc[Main] = "idle"
    /\ Call(MaxSetupCalls)
    /\ \E w \in SetupWidths, h \in SetupHeights :
          /\ \/ w # resolution[1] /\ h = resolution[2]
             \/ w = resolution[1] /\ h # resolution[2]
          /\ resolution' = <<w, h>>
    /\ UNCHANGED <<addressing_direction, consecutive_universes,
                   device_universes, reverse_addressing, device_order_reversed>>
    /\ output_artnet_init
    /\ last' = Did("settings")
    /\ SettingFrame

\* io_manager.py 239 and 248: the on_change of the two universe settings
SetupSetUniverses ==
    /\ pc[Main] = "idle"
    /\ Call(MaxSetupCalls)
    /\ \E c \in 0..MaxConsecutive, d \in 1..MaxConsecutive :
          /\ \/ c # consecutive_universes /\ d = device_universes
             \/ c = consecutive_universes /\ d # device_universes
          /\ consecutive_universes' = c
          /\ device_universes' = d
    /\ UNCHANGED <<resolution, addressing_direction, reverse_addressing,
                   device_order_reversed>>
    /\ output_artnet_init
    /\ last' = Did("settings")
    /\ SettingFrame

\* what the loop leaves alone besides the fields its steps name
LoopFrame ==
    UNCHANGED <<run_thread, active_effect, wanted, is_active, loop_thread,
                target, idx, halted, events, artnet_sender,
                segment_to_universe, cfgvars, rxvars, channels,
                ignore_external, upd, rd, committed, calls, builds, outvars,
                pacevars, create_frame>>

\* io_manager.py 308-329: start_loop() while no loop thread is alive
SetupStart ==
    /\ pc[Main] = "idle"
    /\ ~run
    /\ run' = TRUE
    /\ UNCHANGED <<txvars, pc, output_buffer, steplog, last>>
    /\ LoopFrame

\* io_manager.py 372-381: step() of the loop thread up to the call of
\* update_artnet_output: the channels are read, the producer is called
\* with them and with the stored frame, and its frame is stored
SetupStep ==
    /\ run
    /\ pc[Main] = "idle"
    /\ steplog.raised = ""
    /\ output_buffer' = IF create_frame = NoProducer THEN output_buffer
                        ELSE Produced(create_frame)
    /\ steplog' =
          [calls |-> <<[op |-> "get_channels", result |-> channels]>> \o
                     (IF create_frame = NoProducer THEN <<>>
                      ELSE <<[op |-> "create_frame", channels |-> channels,
                              last_output |-> output_buffer]>>) \o
                     <<[op |-> "store", previous |-> output_buffer,
                        frame |-> output_buffer']>>,
           raised |-> ""]
    /\ Goto(Main, "uao")
    /\ last' = Did("step")
    /\ UNCHANGED <<txvars, run>>
    /\ LoopFrame

\* io_manager.py 516-587: update_artnet_output up to the last set(); an
\* IndexError leaves step() and run_loop(), which catch nothing
SetupWrite ==
    /\ pc[Main] = "uao"
    /\ artnet_sender
    /\ universe_buffer' = WriteSegments(universe_buffer, 0)
    /\ fresh' = {u \in fresh : universe_buffer'[u] = universe_buffer[u]}
    /\ sweep' = NoSweep
    /\ steplog' = [calls |-> steplog.calls \o SetCalls(0),
                   raised |-> IF IndexErrorRaised THEN "IndexError" ELSE ""]
    /\ Goto(Main, IF IndexErrorRaised THEN "idle" ELSE "uao_show")
    /\ last' = Did("update_artnet_output")
    /\ UNCHANGED <<universes, packet_size, last_sent_buffer, last_send_time,
                   sequences, if_sync, now, sent_at>>
    /\ UNCHANGED <<run, output_buffer>>
    /\ LoopFrame

\* io_manager.py 589: self.artnet_sender.show()
SetupShow ==
    /\ pc[Main] = "uao_show"
    /\ show({}, TRUE)
    /\ steplog' = [steplog EXCEPT !.calls = Append(@, [op |-> "show"])]
    /\ Goto(Main, "idle")
    /\ UNCHANGED <<run, output_buffer, last>>
    /\ LoopFrame

NextSetup ==
    \/ SetupSetResolution \/ SetupSetUniverses
    \/ SetupStart \/ SetupStep \/ SetupWrite \/ SetupShow

SpecSetup == InitSetup /\ [][NextSetup]_vars

(***************************************************************************)
(* Specification SpecRestart: the preset change of main.py.  The main      *)
(* thread calls stop_loop (through EffectManager.shutdown), start_loop and *)
(* the on_change of the input source, up to MaxRxCalls times in any order; *)
(* the loop thread makes its steps in between.  start_loop is called while *)
(* no loop thread is alive.                                                *)
(***************************************************************************)
InitRestart ==
    /\ now = StartTime
    /\ CfgInit(<<2, 1>>, "vertical", 1, 1, FALSE, FALSE)
    /\ RxInit
    /\ CorrectionInit
    /\ PaceInit
    /\ create_frame = resolution
    /\ steplog = NoStep
    /\ OutputInit
    /\ IdleInit
    /\ output_buffer = ZeroFrame

\* the history entry of a stop_loop() that returned (exc = "") or raised exc
Stopped(exc) ==
    [op |-> "stop_loop", data |-> <<>>, code |-> 0, ignored |-> ignore_external,
     raised |-> exc]

\* what the calls of the main thread leave alone
RestartFrame ==
    UNCHANGED <<txvars, segment_to_universe, output_buffer, active_effect,
                wanted, is_active, loop_thread, idx, halted, events, cfgvars,
                channels, ignore_external, upd, rd, committed, builds,
                latevars>>

\* io_manager.py 331-351: stop_loop().  Line 345 reads
\* self.run_thread.is_alive(): run_thread is None until the first
\* start_loop(), and None has no is_alive.  The join of line 347 returns
\* when the loop thread ended or after two seconds.
RestartStop ==
    /\ pc[Main] = "idle"
    /\ Call(MaxRxCalls)
    /\ stop_loop
    /\ last' = Stopped(IF run_thread = NoThread THEN "AttributeError" ELSE "")
    /\ UNCHANGED <<run_thread, pc, target>>
    /\ RestartFrame

\* io_manager.py 308-329 and main.py 113: start_loop() with no loop thread
\* alive: the flag is set and a new thread runs run_loop
RestartStart ==
    /\ pc[Main] = "idle"
    /\ ~Alive(Pacer)
    /\ Call(MaxRxCalls)
    /\ run' = TRUE
    /\ run_thread' = Pacer
    /\ pc' = [pc EXCEPT ![Pacer] = "loop_check"]
    /\ target' = [target EXCEPT ![Pacer] = "run_loop"]
    /\ last' = Did("start_loop")
    /\ UNCHANGED <<artnet_sender, rxvars>>
    /\ RestartFrame

\* what the loop thread leaves alone besides the fields its steps name
RestartLoopFrame ==
    UNCHANGED <<run, artnet_sender, segment_to_universe, active_effect, wanted,
                is_active, idx, events, cfgvars, rxvars, chvars, calls, builds,
                outvars, pacevars, create_frame>>

\* io_manager.py 390 and 372-381: run_loop leaves when the flag is clear;
\* else step() reads the channels, calls the producer and stores its frame
RestartLoopCheck ==
    /\ pc[Pacer] = "loop_check"
    /\ IF run
       THEN /\ output_buffer' = Produced(create_frame)
            /\ steplog' =
                  [calls |-> <<[op |-> "get_channels", result |-> channels],
                               [op |-> "create_frame", channels |-> channels,
                                last_output |-> output_buffer],
                               [op |-> "store", previous |-> output_buffer,
                                frame |-> output_buffer']>>,
                   raised |-> ""]
            /\ Goto(Pacer, "uao")
            /\ UNCHANGED <<target, run_thread, loop_thread, halted>>
       ELSE /\ ThreadEnds(Pacer)
            /\ UNCHANGED <<output_buffer, steplog>>
    /\ UNCHANGED txvars
    /\ RestartLoopFrame

\* io_manager.py 516-587: update_artnet_output returns at once when there
\* is no sender; else it calls set() for every segment
RestartWrite ==
    /\ pc[Pacer] = "uao"
    /\ IF artnet_sender
       THEN /\ universe_buffer' = WriteSegments(universe_buffer, 0)
            /\ fresh' = {u \in fresh : universe_buffer'[u] = universe_buffer[u]}
            /\ sweep' = NoSweep
            /\ steplog' = [steplog EXCEPT !.calls = @ \o SetCalls(0)]
            /\ Goto(Pacer, "uao_show")
            /\ UNCHANGED <<universes, packet_size, last_sent_buffer,
                           last_send_time, sequences, if_sync, now, sent_at>>
       ELSE /\ Goto(Pacer, "loop_check")
            /\ UNCHANGED <<txvars, steplog>>
    /\ UNCHANGED <<output_buffer, target, run_thread, loop_thread, halted>>
    /\ RestartLoopFrame

\* io_manager.py 589: self.artnet_sender.show(); the attribute is gone when
\* stop_loop() deleted the sender since line 517 (AttributeError)
RestartShow ==
    /\ pc[Pacer] = "uao_show"
    /\ IF artnet_sender
       THEN /\ show({}, TRUE)
            /\ steplog' = [steplog EXCEPT !.calls = Append(@, [op |-> "show"])]
            /\ Goto(Pacer, "loop_check")
            /\ UNCHANGED <<target, run_thread, loop_thread, halted>>
       ELSE /\ ThreadEnds(Pacer)
            /\ steplog' = [steplog EXCEPT !.raised = "AttributeError"]
            /\ UNCHANGED txvars
    /\ UNCHANGED output_buffer
    /\ RestartLoopFrame

NextRestart ==
    \/ RestartStop \/ RestartStart \/ RxSelectSource
    \/ RestartLoopCheck \/ RestartWrite \/ RestartShow

SpecRestart == InitRestart /\ [][NextRestart]_vars

(***************************************************************************)
(* Claims about the Transmitter                                            *)
(***************************************************************************)
\* C1: while a universe's payload is unchanged since its last transmitted
\* packet, a show() that runs no more than one second after that packet
\* hands no datagram for the universe to the socket.
C1_ChangeSuppression ==
    [][\A u \in Range(universes) :
          (sweep'.done /\ u \in fresh /\ now - sent_at[u] <= KeepAlive)
              => u \notin Attempted(sweep')]_vars

\* a show() has just suppressed a universe sent at most a second ago
C1_Witness ==
    /\ sweep.done
    /\ \E u \in sweep.was_fresh :
          /\ u \notin Attempted(sweep)
          /\ sent_at[u] >= StartTime
          /\ now - sent_at[u] <= KeepAlive

\* C2: a show() at time t hands a datagram for u to the socket iff the
\* pending payload differs from the last transmitted one or more than one
\* second passed since the last send; an unchanged universe is re-sent once
\* more than a second passed, and the first show() sends every universe.
C2_KeepAlive ==
    [][sweep'.done =>
          /\ Attempted(sweep') =
                {u \in Range(universes) :
                    \/ universe_buffer[u] # last_sent_buffer[u]
                    \/ now - last_send_time[u] > KeepAlive}
          /\ \A u \in fresh : now - sent_at[u] > KeepAlive => u \in Attempted(sweep')
          /\ (\A u \in Range(universes) : sequences[u] = 0 /\ sent_at[u] = 0)
                => Attempted(sweep') = Range(universes)]_vars

\* a show() has just re-sent an unchanged universe as a heartbeat
C2_Witness ==
    /\ sweep.done
    /\ \E u \in sweep.was_fresh :
          /\ u \in Transmitted(sweep)
          /\ sent_at[u] = now
          /\ sequences[u] >= 2

\* the universes that follow position j of the universe list
After(j) == {universes[k] : k \in (j + 1)..Len(universes)}
\* position of universe u in the universe list
PosOf(u) == CHOOSE j \in 1..Len(universes) : universes[j] = u

\* C4: when sendto() fails for a universe, the same show() still hands a
\* datagram to the socket for every later universe that is due, emits the
\* sync packet when sync mode is on, and does not raise.
C4_PartialFailure ==
    [][(sweep'.done /\ Failed(sweep') # {}) =>
          /\ ~sweep'.raised
          /\ \A f \in Failed(sweep') : \A u \in After(PosOf(f)) :
                (universe_buffer[u] # last_sent_buffer[u]
                    \/ now - last_send_time[u] > KeepAlive)
                  => u \in Attempted(sweep')
          /\ if_sync => /\ Len(sweep'.wire) > 0
                        /\ sweep'.wire[Len(sweep'.wire)].op = "sync"]_vars

\* the first universe failed, the second was sent and the sync followed
C4_Witness ==
    /\ sweep.done
    /\ Len(sweep.wire) = 3
    /\ sweep.wire[1].op = "dmx" /\ ~sweep.wire[1].ok
    /\ sweep.wire[2].op = "dmx" /\ sweep.wire[2].ok
    /\ sweep.wire[2].universe # sweep.wire[1].universe
    /\ sweep.wire[3].op = "sync"

\* C3 (as the code has it): the counter of a universe starts at 0, stays in
\* 0..255, is the sequence byte of the datagram handed to the socket, and
\* advances by one modulo 256 on every send attempt, failed ones included;
\* nothing else changes it.
C3_SequencePerAttempt ==
    /\ \A u \in Range(universes) : sequences[u] = 0
    /\ [][\A u \in Range(universes) :
             /\ sequences'[u] \in 0..(SeqModulus - 1)
             /\ \A j \in DmxAt(sweep'.wire) :
                   sweep'.wire[j].universe = u => sweep'.wire[j].sequence = sequences[u]
             /\ sequences'[u] =
                   IF sweep'.done /\ u \in Attempted(sweep')
                   THEN (sequences[u] + 1) % SeqModulus
                   ELSE sequences[u]]_vars

\* a datagram carrying sequence byte 255 was sent and the counter is 0 again
C3_Witness ==
    /\ sweep.done
    /\ \E j \in DmxAt(sweep.wire) :
          /\ sweep.wire[j].sequence = SeqModulus - 1
          /\ sweep.wire[j].ok
          /\ sequences[sweep.wire[j].universe] = 0

\* C3 as claimed: the counter changes only when a packet is transmitted, so
\* that successive transmitted packets carry successive sequence bytes.
C3_SequencePerTransmitted ==
    [][\A u \in Range(universes) :
          /\ sequences'[u] \in 0..(SeqModulus - 1)
          /\ sequences'[u] # sequences[u] =>
                /\ sweep'.done /\ u \in Transmitted(sweep')
                /\ sequences'[u] = (sequences[u] + 1) % SeqModulus]_vars

(***************************************************************************)
(* Claims about the Frame Scheduler threads                                *)
(***************************************************************************)
\* C5: at any time at most one thread running run_loop is inside a loop
\* iteration (between the flag check that entered step() and the next one).
C5_AtMostOneLoop ==
    Cardinality({w \in LoopWorkers : pc[w] \in StepLabels}) <= 1

\* C6: a loop thread and a drive thread of the video effect are never both
\* in the part of update_artnet_output() that writes the Transmitter.
C6_SingleWriter ==
    ~ \E l \in LoopWorkers, d \in DriveWorkers : pc[l] = "write" /\ pc[d] = "write"

\* C7: a loop thread that was alive when stop_loop() or stop_thread() was
\* invoked, with no start_loop() call of the owner in progress then or
\* begun since, never enters another iteration.
C7_StopEffective ==
    [][\A w \in halted : ~(pc[w] = "loop_check" /\ pc'[w] = "cb")]_vars

\* C8: a thread never joins itself in start_loop(), stop_loop() or
\* stop_thread(), and a thread that waits in one of their joins eventually
\* leaves it, whatever the joined thread does.
C8_JoinsReturn ==
    /\ [][\A t \in Threads :
             (pc[t] \notin JoinLabels /\ pc'[t] \in JoinLabels) => run_thread # t]_vars
    /\ \A t \in Threads : (pc[t] \in JoinLabels) ~> (pc[t] \notin JoinLabels)

\* the main thread is back from the join of start_loop() while the loop
\* thread it waited for is still alive, and that loop thread is back from
\* a stop_thread() it called itself, which did not join
C8_Witness ==
    /\ pc[Main] = "sl_spawn"
    /\ run_thread \in LoopWorkers
    /\ Alive(run_thread)
    /\ pc[run_thread] = "v_spawn"

\* C9: a thread whose frame producer raises stays alive.
C9_ProducerFailureContained ==
    [][\A t \in Workers : pc[t] = "cb_raw" => pc'[t] # "none"]_vars

\* C10: no thread is inside step() while output_artnet_init() has emptied
\* the segment table and not yet rebuilt it and the sender.
C10_ReconfigurationStopsLoop ==
    ~(segment_to_universe = "empty" /\ \E w \in Workers : InStep(w))

(***************************************************************************)
(* Claims about reconfiguration of the Transmitter                         *)
(***************************************************************************)
\* C11: a call that changes the payload size or the universe list
\* (set_packet_size, set_universe, the rebuild in output_artnet_init) leaves
\* every universe with sequence counter 0, an all-zero pending buffer, an
\* all-zero last-transmitted snapshot and last-send time 0.
C11_HardReset ==
    [][(packet_size' # packet_size \/ universes' # universes) =>
          \A u \in Range(universes') :
             /\ sequences'[u] = 0
             /\ universe_buffer'[u] = Zeros(packet_size')
             /\ last_sent_buffer'[u] = Zeros(packet_size')
             /\ last_send_time'[u] = 0]_vars

(***************************************************************************)
(* Claims about the Receiver and the ChannelSet                            *)
(***************************************************************************)
\* C12: after any sequence of input reconfigurations at most one inbound
\* listener (Art-Net server or sACN receiver) is active, and it is the one
\* of the selected source and universe: the previous one was torn down.
C12_OneListener ==
    /\ Cardinality(listening) <= 1
    /\ \A l \in listening : l.kind = input_source /\ l.universe = input_universe

\* the step is the delivery of a packet to on_artnet_frame or to the sACN
\* callback
Inbound ==
    /\ calls' = calls + 1
    /\ last'.op \in {"on_artnet_frame", "callback"}
\* the packet delivered last is a DMX packet that covers the channel window
Sufficient(l) ==
    /\ l.code = 0
    /\ Len(l.data) >= (input_dmx_address - 1) + NChannels

\* C13: while ignore_external is set no delivered packet changes a value of
\* the ChannelSet; when it is clear, a delivered DMX packet that covers the
\* channel window overwrites the channels with its values.
C13_IgnoreMode ==
    [][Inbound =>
          /\ ignore_external => channels' = channels
          /\ (~ignore_external /\ Sufficient(last')) =>
                \A i \in 0..(NChannels - 1) :
                   channels'[i] = last'.data[input_dmx_address + i]]_vars

\* a packet that covers the window was delivered while ignore_external was
\* set, after an earlier update had gone through, and changed nothing
C13_Witness ==
    /\ last.op \in {"on_artnet_frame", "callback"}
    /\ last.ignored
    /\ ignore_external
    /\ Sufficient(last)
    /\ Cardinality(committed) > 1
    /\ \E i \in 0..(NChannels - 1) :
          channels[i] # last.data[input_dmx_address + i]

\* C14: a delivered DMX packet p with len(p) >= (a-1)+n sets channel i to
\* p[a-1+i] for every i below n and touches nothing else; a shorter packet
\* leaves the ChannelSet unchanged; on_artnet_frame and the sACN callback
\* do the same (ignore_external clear).
C14_ChannelWindow ==
    [][(Inbound /\ ~ignore_external /\ last'.code = 0) =>
          IF Sufficient(last')
          THEN /\ DOMAIN channels' = DOMAIN channels
               /\ \A k \in DOMAIN channels :
                     channels'[k] = IF k < NChannels
                                    THEN last'.data[input_dmx_address + k]
                                    ELSE channels[k]
          ELSE channels' = channels]_vars

\* the sACN callback has just stored the window that starts at address 2
C14_Witness ==
    /\ last.op = "callback"
    /\ ~last.ignored
    /\ input_dmx_address = 2
    /\ Sufficient(last)
    /\ \A i \in 0..(NChannels - 1) : channels[i] = last.data[2 + i]

\* C15: the ChannelSet always has exactly the channels it was built with,
\* and every value is in 0..255.
C15_ChannelSetShape ==
    /\ DOMAIN channels = 0..(NChannels - 1)
    /\ \A k \in DOMAIN channels : channels[k] \in 0..255

\* C16: the list that a get_channels() of the loop worker returned is the
\* ChannelSet as it was after some completed update (or as constructed),
\* never a mixture of two updates.
C16_SnapshotConsistency ==
    last.op = "get_channels" => last.data \in {get_channels(c) : c \in committed}

(***************************************************************************)
(* Claims about the Mapper                                                 *)
(***************************************************************************)
\* C17: with consecutive_universes = c >= 1 and device_universes = d the
\* table gives segment i the universe (i div c) * d + (i mod c); a wall of
\* 4 x 1 with c = 2, d = 3 and vertical addressing gets 0, 1, 3, 4.
C17_UniverseNumbering ==
    /\ consecutive_universes >= 1 =>
          segment_to_universe =
             [i \in 0..(NumSegments - 1) |->
                 (i \div consecutive_universes) * device_universes
                 + (i % consecutive_universes)]
    /\ TableOf(AllUniverses(0, 4, 2, 3, 0, 0)) = (0 :> 0 @@ 1 :> 1 @@ 2 :> 3 @@ 3 :> 4)

\* the table 0, 1, 3, 4 was built by a change of a setting of a 4 x 1 wall
C17_Witness ==
    /\ Len(builds) > 0
    /\ resolution = <<4, 1>>
    /\ addressing_direction = "vertical"
    /\ consecutive_universes = 2
    /\ device_universes = 3
    /\ segment_to_universe = (0 :> 0 @@ 1 :> 1 @@ 2 :> 3 @@ 3 :> 4)

\* C18: two runs of output_artnet_init with the same resolution, direction,
\* consecutive_universes and device_universes give the same table,
\* whatever was configured and sent before each of them.
C18_MapperDeterminism ==
    \A i, j \in 1..Len(builds) :
       builds[i].wiring = builds[j].wiring => builds[i].table = builds[j].table

\* the table was built a second time for settings that had been replaced
\* in between, the second time after frames had been sent
C18_Witness ==
    /\ Len(builds) >= 3
    /\ builds[1].wiring = builds[3].wiring
    /\ builds[1].wiring # builds[2].wiring
    /\ builds[3].table = segment_to_universe
    /\ last.op = "update_artnet_output"
    /\ \E u \in Range(universes) : sequences[u] > 0

\* the data of buffer segment s: column s or row s, in buffer order
SegmentData(s) ==
    IF addressing_direction = "vertical"
    THEN Column(output_buffer, s)
    ELSE Row(output_buffer, s, FALSE)

\* update_artnet_output() was the last call and wrote the pending buffers
FrameWritten == last.op = "update_artnet_output"

\* C19: with device_order_reversed clear, after update_artnet_output the
\* universe of table index i holds the data of segment (segments-1-i) when
\* reverse_addressing is set and of segment i when it is clear, for both
\* addressing directions.
C19_ReverseAddressing ==
    (FrameWritten /\ ~device_order_reversed) =>
       \A i \in 0..(NumSegments - 1) :
          universe_buffer[segment_to_universe[i]] =
             SegmentData(IF reverse_addressing
                         THEN (NumSegments - 1) - i ELSE i)

\* C20: with device_order_reversed set, reverse_addressing clear and
\* c = consecutive_universes > 0, after update_artnet_output the universe
\* of every index x of a full block holds the data of segment
\* (num_blocks-1 - x div c) * c + (x mod c); reversing the blocks twice
\* gives every index back.
C20_DeviceOrderReversed ==
    /\ (FrameWritten /\ device_order_reversed /\ ~reverse_addressing
          /\ consecutive_universes > 0) =>
          \A x \in 0..(NumSegments - 1) :
             (x \div consecutive_universes
                 < NumSegments \div consecutive_universes) =>
                universe_buffer[segment_to_universe[x]] =
                   SegmentData(((NumSegments \div consecutive_universes) - 1
                                - (x \div consecutive_universes))
                               * consecutive_universes
                               + (x % consecutive_universes))
    /\ device_order_reversed =>
          \A x \in 0..(NumSegments - 1) :
             Source(Source(x, NumSegments), NumSegments) = x

\* a frame was written for four columns in two blocks of two: the universe
\* of index 0 holds column 2
C20_Witness ==
    /\ FrameWritten
    /\ device_order_reversed
    /\ ~reverse_addressing
    /\ output_buffer = TagFrame
    /\ NumSegments = 4
    /\ consecutive_universes = 2
    /\ universe_buffer[segment_to_universe[0]] = SegmentData(2)
    /\ universe_buffer[segment_to_universe[0]] # SegmentData(0)

\* a * b = q * D + r with 0 <= r < D, by doubling (no product is formed)
RECURSIVE MulDivMod(_, _, _)
MulDivMod(a, b, D) ==
    IF b = 0 THEN [q |-> 0, r |-> 0]
    ELSE LET h == MulDivMod(a, b \div 2, D)
             t == 2 * h.r + (b % 2) * a
         IN  [q |-> 2 * h.q + t \div D, r |-> t % D]
\* round(v^k / 255^(k-1)) for k in 2..4; no quotient is midway between two
\* integers, since 2 * v^k is even and 255^(k-1) is odd
RoundedPower(v, k) ==
    LET D == MaxValPow(k - 1)
        m == MulDivMod(v * v, IF k = 2 THEN 1 ELSE IF k = 3 THEN v ELSE v * v, D)
    IN  m.q + (IF 2 * m.r >= D THEN 1 ELSE 0)

\* the positions of the channel values of a buffer
Positions(buf) ==
    {<<x, y, ch>> : x \in DOMAIN buf, y \in 0..(resolution[2] - 1),
                    ch \in 0..(PixelChannels - 1)}

\* C23: under quadratic, cubic and quadruple (k = 2, 3, 4) apply returns a
\* buffer whose every channel value is round(v^k / 255^(k-1)) of the input
\* value v; this value lies in 0..255, is 0 for 0 and 255 for 255 and does
\* not decrease when v grows.
C23_PowerCurves ==
    (corrected # NoResult /\ corrected.method \in DOMAIN Power) =>
       /\ ~corrected.raised
       /\ \A p \in Positions(corrected.input) :
             corrected.buffer[p[1]][p[2]][p[3]] =
                RoundedPower(corrected.input[p[1]][p[2]][p[3]],
                             Power[corrected.method])

\* C24: apply(buf, 'linear') returns buf unchanged, and under '2.2 gamma'
\* a channel value 0 comes out as 0 and a channel value 255 as 255.
C24_CorrectionFixedPoints ==
    /\ corrected.method = "linear" =>
          ~corrected.raised /\ corrected.buffer = corrected.input
    /\ corrected.method = "2.2 gamma" =>
          /\ ~corrected.raised
          /\ \A p \in Positions(corrected.input) :
                LET v == corrected.input[p[1]][p[2]][p[3]]
                    out == corrected.buffer[p[1]][p[2]][p[3]]
                IN  (v = 0 => out = 0) /\ (v = MaxVal => out = MaxVal)
\* the gamma curve was applied to a buffer that holds both 0 and 255
C24_Witness ==
    /\ corrected.method = "2.2 gamma"
    /\ \E p \in Positions(corrected.input) :
          corrected.input[p[1]][p[2]][p[3]] = MaxVal
          /\ corrected.buffer[p[1]][p[2]][p[3]] = MaxVal
    /\ \E p \in Positions(corrected.input) :
          corrected.input[p[1]][p[2]][p[3]] = 0
          /\ corrected.buffer[p[1]][p[2]][p[3]] = 0

\* the payload of segment s of the frame buf, pixel by pixel
SegmentOf(buf, s) ==
    IF addressing_direction = "vertical" THEN Column(buf, s) ELSE Row(buf, s, FALSE)
\* the frame buf mirrored top to bottom and left to right as the two flags
\* tell
Mirrored(buf, tb, lr) ==
    [x \in 0..(resolution[1] - 1) |->
       [y \in 0..(resolution[2] - 1) |->
          buf[IF lr THEN (resolution[1] - 1) - x ELSE x]
             [IF tb THEN (resolution[2] - 1) - y ELSE y]]]

\* C21: for both addressing directions, after update_artnet_output the
\* universe of every table index i holds the payload of the selected
\* segment of the output buffer mirrored as flip_top_bottom and
\* flip_left_right tell, each flag on its own (stated for the 'linear'
\* method and reverse_addressing clear).
C21_GlobalFlips ==
    (FrameWritten /\ gamma_correction = "linear" /\ ~reverse_addressing) =>
       \A i \in 0..(NumSegments - 1) :
          universe_buffer[segment_to_universe[i]] =
             SegmentOf(Mirrored(output_buffer, flip_top_bottom, flip_left_right),
                       Source(i, NumSegments))

\* C22: for both addressing directions and every known method, after
\* update_artnet_output every byte of a universe's pending buffer is the
\* correction curve applied to the corresponding channel value of the
\* output buffer (stated with both flips off and reverse_addressing clear).
C22_CorrectionOnTheWire ==
    (FrameWritten /\ ~flip_top_bottom /\ ~flip_left_right
        /\ ~reverse_addressing) =>
       \A i \in 0..(NumSegments - 1) :
          universe_buffer[segment_to_universe[i]] =
             [j \in 1..packet_size |->
                Curve(gamma_correction,
                      SegmentOf(output_buffer, Source(i, NumSegments))[j])]

\* C25: apply with a method name that is not an available one raises and
\* returns no buffer, and while such a name is selected no call changes a
\* pending buffer or hands a packet to the socket.
C25_UnknownMethod ==
    [][/\ (corrected' # corrected /\ corrected'.method \notin Methods) =>
             corrected'.raised /\ corrected'.buffer = <<>>
       /\ gamma_correction \notin Methods =>
             /\ universe_buffer' = universe_buffer
             /\ sweep' = sweep
             /\ sequences' = sequences
             /\ last_sent_buffer' = last_sent_buffer]_vars
\* update_artnet_output ran into the error while a produced frame was
\* waiting and the sender held another payload
C25_Witness ==
    /\ last.op = "ValueError"
    /\ corrected.raised
    /\ gamma_correction \notin Methods
    /\ output_buffer = BrightFrame
    /\ \E u \in Range(universes) : universe_buffer[u] = Zeros(packet_size)

\* C26: every data packet that show() hands to the socket for universe u
\* with sequence counter s and a pending payload of n bytes is exactly
\* 'A','r','t','-','N','e','t',0, 0,0x50, 0,14, s, 0, u mod 256, u div 256,
\* n div 256, n mod 256 followed by the n payload bytes (18 + n bytes).
C26_DataPacketLayout ==
    [][\A j \in DmxAt(sweep'.wire) :
          LET p == sweep'.wire[j]
              u == p.universe
              n == Len(universe_buffer[u])
          IN  /\ p.sequence = sequences[u]
              /\ p.bytes = <<65, 114, 116, 45, 78, 101, 116, 0, 0, 80, 0, 14,
                             sequences[u], 0, u % 256, u \div 256,
                             n \div 256, n % 256>> \o universe_buffer[u]
              /\ Len(p.bytes) = 18 + n
              /\ u \in 0..32767 /\ sequences[u] \in 0..255
              /\ n \in 2..512 /\ n % 2 = 0]_vars
\* a data packet of universe 32767 with 512 payload bytes went out with a
\* sequence byte of 255
C26_Witness ==
    /\ sweep.done
    /\ \E j \in DmxAt(sweep.wire) :
          /\ sweep.wire[j].universe = 32767
          /\ sweep.wire[j].sequence = 255
          /\ Len(sweep.wire[j].bytes) = 18 + 512
          /\ sweep.wire[j].data = Fill(512, 255)

\* the decode side as the specification describes it: the magic id and the
\* data opcode are validated; the universe is read low byte first at
\* offsets 14/15, the length high byte first at offsets 16/17, the payload
\* follows the 18 header bytes
decode_data_packet(b) ==
    IF Len(b) < 18 \/ SubSeq(b, 1, 8) # ArtNetId \o <<0>>
          \/ SubSeq(b, 9, 10) # <<0, 80>>
    THEN [ok |-> FALSE, universe |-> -1, payload |-> <<>>]
    ELSE LET n == b[17] * 256 + b[18]
         IN  IF Len(b) < 18 + n
             THEN [ok |-> FALSE, universe |-> -1, payload |-> <<>>]
             ELSE [ok |-> TRUE, universe |-> b[15] + 256 * b[16],
                   payload |-> SubSeq(b, 19, 18 + n)]

\* C27: decoding a data packet that show() built for universe u and a
\* payload gives back that u and that payload.
C27_CodecRoundTrip ==
    sweep.done =>
       \A j \in DmxAt(sweep.wire) :
          decode_data_packet(sweep.wire[j].bytes) =
             [ok |-> TRUE, universe |-> sweep.wire[j].universe,
              payload |-> sweep.wire[j].data]
\* a packet of universe 32767 (both address bytes used) with 512 payload
\* bytes (length high byte used) was decoded
C27_Witness ==
    /\ sweep.done
    /\ \E j \in DmxAt(sweep.wire) :
          /\ sweep.wire[j].universe = 32767
          /\ Len(sweep.wire[j].data) = 512
          /\ decode_data_packet(sweep.wire[j].bytes).ok

\* C28: with sync mode enabled every show() hands exactly one sync packet
\* to the socket, after all data packets of the sweep, and it is the 14
\* bytes 'Art-Net',0, 0,0x52, 0,14, 0,0; with sync mode disabled show()
\* hands no sync packet to the socket.
C28_SyncPacket ==
    sweep.done =>
       LET w == sweep.wire
           syncs == {j \in 1..Len(w) : w[j].op = "sync"}
       IN  IF if_sync
           THEN /\ syncs = {Len(w)}
                /\ w[Len(w)].bytes =
                      <<65, 114, 116, 45, 78, 101, 116, 0, 0, 82, 0, 14, 0, 0>>
           ELSE syncs = {}
\* a sweep of two data packets was followed by the sync packet
C28_Witness ==
    /\ sweep.done
    /\ if_sync
    /\ Len(sweep.wire) = 3
    /\ sweep.wire[1].op = "dmx" /\ sweep.wire[2].op = "dmx"
    /\ sweep.wire[3].op = "sync"

\* C29: when a step() took longer than one period the loop began the next
\* step without sleeping, and any two successive steps began at least one
\* period apart: the periods missed during an overrun are not made up.
C29_NoFrameBacklog ==
    \A i \in 2..Len(pace.starts) :
       /\ pace.starts[i] - pace.starts[i - 1] >= FramePeriod
       /\ (pace.ends[i - 1] - pace.starts[i - 1] > FramePeriod) => ~pace.naps[i]
\* a step overran by more than two periods; the next step began without a
\* sleep and the one after it a period later, after a sleep
C29_Witness ==
    /\ Len(pace.starts) >= 3
    /\ pace.ends[1] - pace.starts[1] > 2 * FramePeriod
    /\ ~pace.naps[2]
    /\ pace.starts[2] = pace.ends[1]
    /\ pace.naps[3]
    /\ pace.starts[3] - pace.starts[2] = FramePeriod

\* C30: with black_on_close set, once a teardown (shutdown's stop_loop or
\* the finalisation) has released the sender the last payload sent for
\* every universe is all zeros.
C30_BlackOnClose ==
    (black_on_close /\ ~artnet_sender /\ pc[Main] = "idle") =>
       \A u \in Range(universes) : last_sent_buffer[u] = Zeros(packet_size)

\* the Transmitter's maps have the universe list as their key set and
\* hold buffers of packet_size bytes, packet_size being even and in 2..512
TxShape ==
    /\ packet_size \in 2..512 /\ packet_size % 2 = 0
    /\ DOMAIN universe_buffer = Range(universes)
    /\ DOMAIN last_sent_buffer = Range(universes)
    /\ DOMAIN last_send_time = Range(universes)
    /\ DOMAIN sequences = Range(universes)
    /\ \A u \in DOMAIN universe_buffer : Len(universe_buffer[u]) = packet_size
    /\ \A u \in DOMAIN last_sent_buffer : Len(last_sent_buffer[u]) = packet_size

\* C37: after every call of set, clear, set_packet_size, set_universe and
\* show the Transmitter's maps have exactly the universe list as key set,
\* all buffers have packet_size bytes and packet_size is even and in
\* 2..512; a set() with a payload of another length changes no pending
\* buffer.
C37_TransmitterShape ==
    [][/\ TxShape'
       /\ (calls' # calls /\ last'.op = "set" /\ Len(last'.data) # packet_size)
             => universe_buffer' = universe_buffer]_vars

\* C38: a send that fails in show() leaves the snapshot and the send time
\* of its universe as they were, so the universe is still due and the next
\* show() attempts it again; a snapshot changes only for a universe whose
\* datagram was sent successfully, and then to the payload sent.
C38_FailedSendRetried ==
    [][sweep'.done =>
          \A u \in Range(universes) :
             /\ u \in Failed(sweep') =>
                   /\ last_sent_buffer'[u] = last_sent_buffer[u]
                   /\ last_send_time'[u] = last_send_time[u]
                   /\ \/ universe_buffer'[u] # last_sent_buffer'[u]
                      \/ now' - last_send_time'[u] > KeepAlive
             /\ last_sent_buffer'[u] # last_sent_buffer[u] =>
                   /\ u \in Transmitted(sweep')
                   /\ last_sent_buffer'[u] = universe_buffer[u]
             /\ last_send_time'[u] # last_send_time[u] => u \in Transmitted(sweep')
             /\ (sweep.done /\ now' = now /\ u \in Failed(sweep)) =>
                   u \in Attempted(sweep')]_vars

\* a universe that was sent before has a new payload, and the send of it
\* has just failed: the snapshot is still the old payload
C38_Witness ==
    /\ sweep.done
    /\ \E u \in Failed(sweep) :
          /\ last_send_time[u] > 0
          /\ universe_buffer[u] # last_sent_buffer[u]
          /\ sequences[u] >= 2

\* the configuration the settings hold is not a valid one: a dimension or
\* the block size is not positive, or the payload of a segment is not an
\* even number of bytes in 2..512
InvalidConfig ==
    \/ resolution[1] <= 0
    \/ resolution[2] <= 0
    \/ consecutive_universes <= 0
    \/ PacketsPerUniverse \notin 2..512
    \/ PacketsPerUniverse % 2 # 0

\* C31: while the configuration is invalid, start_loop() does not bring
\* the scheduler into the running state.  (The configuration error that
\* setup is to report has no counterpart in the state of the program.)
C31_InvalidConfigNotStarted ==
    [][InvalidConfig' => ~(run' /\ ~run)]_vars

\* C32: the output buffer has the shape width x height x pixel_channels of
\* the resolution, with 3 or 4 channels, also after the resolution was
\* changed and after a frame of the producer was stored.
C32_BufferShape ==
    /\ Shape(output_buffer) = resolution
    /\ PixelChannels \in {3, 4}
    /\ \A x \in DOMAIN output_buffer : \A y \in DOMAIN output_buffer[x] :
          DOMAIN output_buffer[x][y] = 0..(PixelChannels - 1)

\* the loop of update_artnet_output has run to its end
SegmentsWritten == pc[Main] = "uao_show" /\ last.op = "update_artnet_output"
\* the calls of set() of the latest step
SetsOf(log) == {j \in 1..Len(log.calls) : log.calls[j].op = "set"}

\* C33: set() rejects no payload of the frame path, and after the loop of
\* update_artnet_output the pending buffer of every segment's universe has
\* packet_size bytes and holds the channel data of the segment, padded or
\* cut to that size.
C33_PayloadFitted ==
    SegmentsWritten =>
       /\ \A j \in SetsOf(steplog) : steplog.calls[j].accepted
       /\ \A k \in 0..(NumSegments - 1) :
             LET u == segment_to_universe[IndexOf(k)]
                 n == IF Len(dmx_values(k)) < packet_size
                      THEN Len(dmx_values(k)) ELSE packet_size
             IN  /\ Len(universe_buffer[u]) = packet_size
                 /\ \A i \in 1..n : universe_buffer[u][i] = dmx_values(k)[i]

\* C35: with a positive resolution, consecutive_universes > 0 and
\* device_universes > 0 no two segments have the same universe, and the
\* universe list of the sender has one entry per segment and no entry
\* twice.
C35_TableInjective ==
    (resolution[1] > 0 /\ resolution[2] > 0 /\ consecutive_universes > 0
        /\ device_universes > 0) =>
       /\ \A i, j \in DOMAIN segment_to_universe :
             i # j => segment_to_universe[i] # segment_to_universe[j]
       /\ Len(universes) = NumSegments
       /\ DOMAIN segment_to_universe = 0..(NumSegments - 1)
       /\ \A i, j \in 1..Len(universes) : i # j => universes[i] # universes[j]

\* C36: for every setting of reverse_addressing and device_order_reversed,
\* every consecutive_universes > 0 and every number of segments, multiple
\* of the block size or not, the loop of update_artnet_output pairs every
\* table index with one source segment and every source segment with one
\* table index, and every source segment is a column or row of the buffer.
C36_SourceBijection ==
    consecutive_universes > 0 =>
       LET n == NumSegments
       IN  /\ Limit = n
           /\ \A i \in 0..(n - 1) :
                 Cardinality({k \in 0..(n - 1) : IndexOf(k) = i}) = 1
           /\ \A src \in 0..(n - 1) :
                 Cardinality({k \in 0..(n - 1) : SourceOf(k) = src}) = 1
           /\ \A k \in 0..(n - 1) :
                 /\ SourceOf(k) \in 0..(n - 1)
                 /\ InBuffer(k)

\* a frame went out with both reversals set and a last block that is not
\* full: the first block took the data of another block, the last
\* segment its own
C36_Witness ==
    /\ FrameWritten
    /\ device_order_reversed /\ reverse_addressing
    /\ consecutive_universes > 1
    /\ NumSegments % consecutive_universes # 0
    /\ Source(0, NumSegments) # 0
    /\ Source(NumSegments - 1, NumSegments) = NumSegments - 1

\* positions of the calls named op in the calls of a step
CallsOf(log, op) == {j \in 1..Len(log.calls) : log.calls[j].op = op}

\* the calls of a step that ran as C34 says, for the table and the
\* producer of the state
InOrder(log) ==
    LET c == log.calls
        stored == CHOOSE j \in CallsOf(log, "store") : TRUE
    IN  /\ log.raised = ""
        /\ c[1].op = "get_channels"
        /\ Cardinality(CallsOf(log, "store")) = 1
        /\ IF create_frame = NoProducer
           THEN /\ CallsOf(log, "create_frame") = {}
                /\ stored = 2
                /\ c[stored].frame = c[stored].previous
           ELSE /\ CallsOf(log, "create_frame") = {2}
                /\ stored = 3
                /\ c[2].channels = c[1].result
                /\ c[2].last_output = c[stored].previous
                /\ c[stored].frame = Produced(create_frame)
        /\ output_buffer = c[stored].frame
        /\ CallsOf(log, "show") = {Len(c)}
        /\ \A j \in CallsOf(log, "set") : stored < j /\ j < Len(c)
        /\ \A i \in DOMAIN segment_to_universe :
              Cardinality({j \in CallsOf(log, "set") : c[j].index = i}) = 1
        /\ Cardinality(CallsOf(log, "set")) = Cardinality(DOMAIN segment_to_universe)

\* C34: every step calls the producer once, with the channels read in that
\* step and the frame the previous step stored, and stores its frame (or
\* keeps the stored frame when no producer is registered); it then calls
\* set() once for every segment of the table and, after all of them,
\* show() once.
C34_StepOrder ==
    [][(pc[Main] # "idle" /\ pc'[Main] = "idle") => InOrder(steplog')]_vars

\* the listener of the selected input source is open
ListenerActive ==
    /\ input_source = "sacn" =>
          \E l \in listening : l.id = receiver /\ l.kind = "sacn"
    /\ input_source = "artnet" =>
          \E l \in listening : l.id = artnet_server /\ l.kind = "artnet"

\* C39: a step that the loop thread makes while the scheduler runs finds a
\* Transmitter and calls show() for its frame, and the listener of the
\* configured input source is open; so it is after stop_loop() and
\* start_loop() too.
C39_RestartTransmits ==
    [][(pc[Pacer] \in {"uao", "uao_show"} /\ pc'[Pacer] # pc[Pacer] /\ run) =>
          /\ artnet_sender
          /\ pc[Pacer] = "uao_show" => CallsOf(steplog', "show") # {}
          /\ ListenerActive]_vars

\* C40: stop_loop() returns without raising and leaves run false, whether
\* the loop was never started, is running or was stopped before, and
\* whatever the input source is.
C40_StopLoopReturns ==
    [][(calls' # calls /\ last'.op = "stop_loop") =>
          /\ last'.raised = ""
          /\ ~run']_vars

====
